---- MODULE Spec2Model ----
(***************************************************************************)
(* Verification model of the Doginals tooling:                             *)
(*   - scripts/doginals.js  (builder, broadcaster, pending journal)        *)
(*   - server.js            (DRC-20 streaming bulk-mint controllers)       *)
(*   - scripts/decode.js    (chain walker, content store, master index)    *)
(***************************************************************************)
EXTENDS Integers, Sequences, FiniteSets, TLC

(***************************************************************************)
(* Bounds of the model                                                     *)
(***************************************************************************)
MaxChainLen == 3   \* longest chain inscribe builds in the mint model
MaxChains == 3     \* chains built during one behaviour
MaxTotal == 2      \* largest requested mint total / CLI repeat count
MaxSuffix == 1     \* largest N of an id <txid>iN a decode request uses
MaxRefs == 2       \* most inscriptions one html payload references
MaxProgress == 2   \* largest chunk and dependency count of a progress entry
MaxWalkTxs == 3    \* transactions of a chain the walker is started at or finds mined
MaxLost == 1       \* content files removed from outside during one behaviour
MaxClock == 2      \* ticks of the clock during one behaviour
MaxUpserts == 2    \* direct upsertMasterEntry calls per inscription id
MaxLatePolls == 2  \* confirmation polls counted after the client has gone
MaxWalletChains == 2  \* chains inscribe builds on one wallet file
MaxFunds == 2      \* utxos of the wallet file at the start
MaxFiles == 3      \* files in the images folder of a file-mint run
MaxGraphTxs == 2   \* transactions the node knows in the walks over any answers
MaxGraphHops == 4  \* largest maxHops option of these walks
MaxTokens == 5     \* tokens after the preamble in the lists the parsers are tried on
MaxWaveTotal == 25 \* largest requested count in the wave loop on its own
MaxExitTxs == 2    \* transactions of the chains a decode with a progress entry is run on

(***************************************************************************)
(* Program constants                                                       *)
(***************************************************************************)
MAX_PER_WAVE == 12
SYNC_MAX_TRIES == 5

None == "none"

Min(a, b) == IF a <= b THEN a ELSE b

Range(s) == {s[x] : x \in DOMAIN s}

(***************************************************************************)
(* ======================  MINT SIDE: STATE  ============================= *)
(***************************************************************************)
VARIABLES
  pending,    \* pending-txs.json next to the wallet: list of txs, <<>> = no file
  proc,       \* the running doginals.js process (one per wallet at a time)
  chainNo,    \* number of chains built by inscribe so far
  chainLen,   \* length of the latest built chain
  st,         \* client view of each tx of the latest chain
  nodeAcc,    \* positions of the latest chain the node holds (mempool/chain)
  hist,       \* history of the latest chain and of the last broadcastAll call
  ctl         \* the streaming bulk-mint controller of server.js

mintVars == <<pending, proc, chainNo, chainLen, st, nodeAcc, hist, ctl>>

(***************************************************************************)
(* =====================  DECODER SIDE: STATE  =========================== *)
(***************************************************************************)
VARIABLES
  master,             \* content/master/master.json: inscription id -> entry
  files,              \* the files under content/: name -> content
  modelViewerSrcSet,  \* decode.js global set of <model-viewer src> ids
  chain,              \* what the node holds for each txid
  req,                \* the decode request being served
  last,               \* record of the latest ensureInscriptionDecoded call
  first,              \* id as typed -> inscriptionId its first good call gave
  progressMap,        \* decode.js progressMap: progress key -> entry
  lost,               \* content files removed from outside so far
  now,                \* the clock new Date() reads
  upserts             \* inscription id -> upsertMasterEntry calls made for it

decoderVars ==
  <<master, files, modelViewerSrcSet, chain, req, last, first, progressMap,
    lost, now, upserts>>

VARIABLES
  tripIn,     \* content type and payload handed to inscribe
  tripTxs,    \* asm of the inputs of each transaction of the built chain
  walk,       \* decodeDoginalsChain on that chain
  tripOut     \* mime type and bytes the decoder ends with

tripVars == <<tripIn, tripTxs, walk, tripOut>>

VARIABLES
  walletUtxos,  \* the utxos array of the wallet file (.wallet.json)
  walletTxs,    \* the transactions inscribe returned, being broadcast
  walletAt,     \* index of the transaction broadcastAll is at, 0 when none
  walletChains  \* chains inscribe has built on this wallet

walletVars == <<walletUtxos, walletTxs, walletAt, walletChains>>

VARIABLES
  runState,   \* runState of POST /api/doginals/mint-stream
  runFile,    \* the run record on disk (inscriptions_<label>_<time>.json)
  runAt       \* where the handler is

runVars == <<runState, runFile, runAt>>

VARIABLE
  race        \* ensureInscriptionDecoded calls in flight at the same time

VARIABLES
  graph,      \* what the node answers: inputs and next hop of each transaction
  gw          \* decodeDoginalsChain on these answers

graphVars == <<graph, gw>>

VARIABLES
  parse,      \* an asm token list, which parser read it, and what it returned
  pack,       \* the packing loop of inscribe: chunks left and partials built
  waves       \* the wave loop of a streaming controller, the child left out

pureVars == <<parse, pack, waves>>

\* the state of the smaller sub-models
restVars == <<walletVars, runVars, race, graphVars, pureVars>>

vars == <<mintVars, decoderVars, tripVars, restVars>>

\* A transaction of a built chain: chain number and 1-based position.
Tx(c, n) == [c |-> c, n |-> n]

\* no txid (null / undefined)
NoTx == Tx(0, 0)

\* inscribe(): the ordered transactions of a freshly built chain of length k.
\* Every partial envelope adds one transaction; the last one pays the address.
inscribe(c, k) == [n \in 1..k |-> Tx(c, n)]

Cmds == {"mint", "drc20mint", "walletsync", "walletsend", "walletsplit"}

Responses == {"ok", "lostok", "spent", "chainlimit", "other"}

ProcOff ==
  [pc |-> "off",          \* off | bcast | send | exit
   by |-> None,           \* who started it: cli | ctl
   cmd |-> None,          \* process.argv[2..3]
   txs |-> <<>>,          \* the list handed to broadcastAll
   i |-> 0,               \* loop index of broadcastAll (1-based)
   left |-> 0,            \* mints still to do in doge20Transfer's repeat loop
   resume |-> FALSE,      \* main() took the pending-journal branch
   journal0 |-> <<>>,     \* the journal main() read at start
   sent |-> <<>>,         \* transactions submitted by this process, in order
   minted |-> <<>>,       \* 'inscription txid:' lines printed so far
   chainLimit |-> FALSE,  \* output contains too-long-mempool-chain
   failed |-> FALSE,      \* broadcastAll took its journal-and-exit branch
   returned |-> FALSE,    \* the last step ended with broadcastAll returning
   call |-> <<>>,         \* the list of the broadcastAll call that returned
   callFresh |-> FALSE,   \* ... which came straight from inscribe
   reported |-> NoTx,     \* inscriptionTxid of that return
   ran |-> None,          \* command function that main() dispatched to
   code |-> 0]            \* exit code

\* a journal that leaves out the transaction whose broadcast failed
sliceAfter(txs, i) == SubSeq(txs, i + 1, Len(txs))

\* txs.slice(i) of broadcastAll (i is 1-based here)
sliceFrom(txs, i) == SubSeq(txs, i, Len(txs))

\* a report that always names the first transaction of the list
inscriptionTxidFirst(txs) == IF Len(txs) >= 1 THEN txs[1] ELSE NoTx

\* inscriptionTxid of broadcastAll: txs.length > 1 ? txs[1].hash : txs[0]?.hash
inscriptionTxid(txs) ==
  IF Len(txs) > 1 THEN txs[2] ELSE IF Len(txs) = 1 THEN txs[1] ELSE NoTx

\* the line 'inscription txid: ...' is printed only when txs.length > 1
printedTxid(txs) == IF Len(txs) > 1 THEN <<txs[2]>> ELSE <<>>

\* a broadcaster that skips over every failed transaction
treatedAsAcceptedAny(r) == r \in {"spent", "other"}

\* e.message includes 'bad-txns-inputs-spent' or 'already in block chain'
treatedAsAccepted(r) == r = "spent"

\* what the node keeps after a sendrawtransaction answered with r
\* (lostok: the node took the transaction but the reply never arrived)
nodeAfter(acc, tx, r) == IF r \in {"ok", "lostok"} THEN acc \cup {tx.n} ELSE acc

\* answers the node can give for tx: a transaction it already holds is never
\* accepted a second time
nodeAnswers(acc, tx) == IF tx.n \in acc THEN {"spent", "other"} ELSE Responses

\* the client's view of the latest chain: the last answer seen for each position
stAfter(s, tx, r) == [s EXCEPT ![tx.n] = r]

freshSt(k) == [n \in 1..k |-> "unsent"]

FreshHist ==
  [journalled |-> FALSE,  \* a failure wrote the journal for the latest chain
   dropped |-> FALSE,     \* the controller removed a journal holding unaccepted txs
   full |-> 0,            \* chains whose broadcastAll returned normally
   whole |-> 0]           \* chains the node came to hold in full through a
                          \* process /api/drc20/mint-stream started

\* the history after the node answered r to tx, sent by process p
wholeAfter(h, p, acc, tx, r) ==
  IF /\ p.by = "ctl"
     /\ ctl.mode = "single"
     /\ acc # 1..chainLen
     /\ nodeAfter(acc, tx, r) = 1..chainLen
  THEN [h EXCEPT !.whole = @ + 1]
  ELSE h

\* lengths inscribe can produce for a command: a drc-20 payload is one short
\* JSON part (commit + reveal); a file mint has one transaction per partial
\* envelope plus the final one
chainLengths(cmd) == IF cmd = "drc20mint" THEN {2} ELSE 2..MaxChainLen

\* a resume that reads the journal back to front
journalTxsReversed(file) == [x \in 1..Len(file) |-> file[Len(file) + 1 - x]]

\* main(): txs = JSON.parse(readFileSync(pendingPath)).map(tx => new Transaction(tx))
journalTxs(file) == file

\* a broadcastAll that leaves the journal behind
unlinkPendingKeep(file) == file

\* fs.unlinkSync(pendingPath) at the end of broadcastAll
unlinkPending(file) == <<>>

(***************************************************************************)
(* ==================  doginals.js: the CLI process  ===================== *)
(***************************************************************************)

\* mint() -> inscribe() -> broadcastAll(txs, false): up to the first await.
\* fundsOk = FALSE is fund() throwing 'not enough funds' (main's catch exits 1);
\* h, s, acc are the history, client view and node view if no chain is built.
startMint(p, k, fundsOk, h, s, acc) ==
  IF fundsOk
  THEN /\ chainNo' = chainNo + 1
       /\ chainLen' = k
       /\ st' = freshSt(k)
       /\ nodeAcc' = {}
       /\ hist' = [h EXCEPT !.journalled = FALSE, !.dropped = FALSE]
       /\ proc' = [p EXCEPT !.pc = "bcast", !.txs = inscribe(chainNo + 1, k),
                            !.i = 1]
  ELSE /\ proc' = [p EXCEPT !.pc = "exit", !.code = 1]
       /\ st' = s
       /\ nodeAcc' = acc
       /\ hist' = h
       /\ UNCHANGED <<chainNo, chainLen>>

\* main(): the pending-journal branch, else the command dispatch.
\* n is the repeat count of 'drc-20 mint' (argv[7]).
main(by, cmd, n) ==
  /\ proc.pc = "off"
  /\ IF pending # <<>>
     THEN /\ proc' = [ProcOff EXCEPT !.pc = "bcast", !.by = by, !.cmd = cmd,
                                     !.txs = journalTxs(pending), !.i = 1,
                                     !.resume = TRUE, !.journal0 = pending]
          /\ UNCHANGED <<pending, chainNo, chainLen, st, nodeAcc, hist>>
     ELSE /\ UNCHANGED pending
          /\ LET p0 == [ProcOff EXCEPT !.by = by, !.cmd = cmd, !.ran = cmd] IN
             CASE cmd \in {"mint", "drc20mint"} ->
                    /\ chainNo + n <= MaxChains
                    /\ \E k \in chainLengths(cmd), fundsOk \in BOOLEAN :
                         startMint([p0 EXCEPT !.left = n], k, fundsOk,
                                   hist, st, nodeAcc)
               [] cmd = "walletsync" ->
                    \* walletSync: listunspent answers or the RPC throws
                    /\ \E rpcOk \in BOOLEAN :
                         proc' = [p0 EXCEPT !.pc = "exit",
                                            !.code = IF rpcOk THEN 0 ELSE 1]
                    /\ UNCHANGED <<chainNo, chainLen, st, nodeAcc, hist>>
               [] OTHER ->
                    \* walletSend / walletSplit: broadcast(tx, true)
                    /\ proc' = [p0 EXCEPT !.pc = "send"]
                    /\ UNCHANGED <<chainNo, chainLen, st, nodeAcc, hist>>

\* One iteration of broadcastAll's loop: the answer r to sendrawtransaction
\* of txs[i], then everything up to the next await or to the process exit.
broadcastStep(r) ==
  /\ proc.pc = "bcast"
  /\ LET tx == proc.txs[proc.i]
         p1 == [proc EXCEPT !.sent = Append(@, tx), !.returned = FALSE]
     IN
     /\ r \in nodeAnswers(nodeAcc, tx)
     /\ IF r = "ok" \/ treatedAsAccepted(r)
        THEN IF proc.i < Len(proc.txs)
             THEN \* next transaction of the list
                  /\ proc' = [p1 EXCEPT !.i = @ + 1]
                  /\ st' = stAfter(st, tx, r)
                  /\ nodeAcc' = nodeAfter(nodeAcc, tx, r)
                  /\ hist' = wholeAfter(hist, proc, nodeAcc, tx, r)
                  /\ UNCHANGED <<pending, chainNo, chainLen>>
             ELSE \* loop finished: unlink the journal, report, return
                  LET p2 == [p1 EXCEPT
                               !.minted = @ \o printedTxid(proc.txs),
                               !.returned = TRUE,
                               !.call = proc.txs,
                               !.callFresh = ~proc.resume,
                               !.reported = inscriptionTxid(proc.txs)]
                  IN
                  /\ pending' = unlinkPending(pending)
                  /\ IF ~proc.resume /\ proc.left > 1
                     THEN \* doge20Transfer: next mint of the repeat loop
                          \E fundsOk \in BOOLEAN :
                            startMint([p2 EXCEPT !.left = @ - 1], 2, fundsOk,
                                      [wholeAfter(hist, proc, nodeAcc, tx, r)
                                         EXCEPT !.full = @ + 1],
                                      stAfter(st, tx, r),
                                      nodeAfter(nodeAcc, tx, r))
                     ELSE /\ proc' = [p2 EXCEPT !.pc = "exit", !.code = 0]
                          /\ st' = stAfter(st, tx, r)
                          /\ nodeAcc' = nodeAfter(nodeAcc, tx, r)
                          /\ hist' = [wholeAfter(hist, proc, nodeAcc, tx, r)
                                       EXCEPT !.full = @ + 1]
                          /\ UNCHANGED <<chainNo, chainLen>>
        ELSE \* any other error: journal the rest and exit(1)
             /\ pending' = sliceFrom(proc.txs, proc.i)
             /\ proc' = [p1 EXCEPT !.pc = "exit", !.code = 1, !.failed = TRUE,
                                   !.chainLimit = (r = "chainlimit")]
             /\ st' = stAfter(st, tx, r)
             /\ nodeAcc' = nodeAfter(nodeAcc, tx, r)
             /\ hist' = [wholeAfter(hist, proc, nodeAcc, tx, r)
                          EXCEPT !.journalled = TRUE]
             /\ UNCHANGED <<chainNo, chainLen>>

\* broadcast(tx, true) of walletSend / walletSplit: retry on chain-limit,
\* rethrow anything else (main's catch exits 1); no journal is involved.
sendStep(r) ==
  /\ proc.pc = "send"
  /\ r \in {"ok", "chainlimit", "other"}
  /\ proc' = CASE r = "ok" -> [proc EXCEPT !.pc = "exit", !.code = 0]
               [] r = "chainlimit" -> [proc EXCEPT !.chainLimit = TRUE]
               [] OTHER -> [proc EXCEPT !.pc = "exit", !.code = 1]
  /\ UNCHANGED <<pending, chainNo, chainLen, st, nodeAcc, hist, ctl>>

(***************************************************************************)
(* ======  server.js: /api/drc20/mint-stream and multi-mint-stream  ====== *)
(***************************************************************************)

CtlOff ==
  [mode |-> None,        \* none | single (mint-stream) | multi (multi-mint-stream)
   pc |-> None,          \* sync | syncwait | loop | wave | del | wait | sleep | done | error
   kind |-> None,        \* the wave running or last run: main | test
   next |-> None,        \* where a successful syncWalletWithRetry continues
   jobs |-> <<>>,        \* requested counts (single: one job of 'total')
   job |-> 1,            \* jobIndex (1-based)
   jobDone |-> 0,        \* jobCompleted (single: completed)
   completed |-> 0,      \* completed
   lastTxid |-> NoTx,    \* lastSuccessfulTxid / globalLastTxid
   allTxids |-> <<>>,    \* allTxids (single)
   watch |-> NoTx,       \* txid waitForTxChainClear is polling
   attempt |-> 1,        \* attempt of syncWalletWithRetry
   cancelled |-> FALSE,  \* req.on('close')
   owed |-> [due |-> FALSE, del |-> FALSE, sync |-> FALSE, ok |-> FALSE],
                         \* history: recovery done since the last chain-limit exit
   lastWait |-> None,    \* history: how the last wait ended
   late |-> 0,           \* history: confirmation polls made while cancelled
   after |-> None]       \* history: since the last successful wave with mints
                         \* remaining: ok | waited | synced

ctlActive == ctl.pc \notin {None, "done", "error"}

lastOf(q, dflt) == IF Len(q) > 0 THEN q[Len(q)] ELSE dflt

\* for (const txid of mintedTxids) if (!allTxids.includes(txid)) allTxids.push(txid)
RECURSIVE pushNew(_, _)
pushNew(all, q) ==
  IF q = <<>> THEN all
  ELSE pushNew(IF Head(q) \in Range(all) THEN all ELSE Append(all, Head(q)),
               Tail(q))

\* all that remains in one wave
waveCountAll(c) == c.jobs[c.job] - c.jobDone

\* const waveCount = Math.min(MAX_PER_WAVE, remaining)
waveCount(c) == Min(MAX_PER_WAVE, c.jobs[c.job] - c.jobDone)

\* the wave result the controller derives from the closed child
exitOk(p) == p.code = 0 /\ ~p.chainLimit
\* every failed wave taken for a chain-limit
hardErrorNever(p) == FALSE

hardError(p) == p.code # 0 /\ ~p.chainLimit

\* only the global counter is advanced, the job's own is forgotten
countedGlobalOnly(c, p) ==
  IF Len(p.minted) = 0 THEN c
  ELSE [c EXCEPT !.completed = @ + Len(p.minted),
                 !.lastTxid = lastOf(p.minted, c.lastTxid),
                 !.allTxids = IF c.mode = "single" THEN pushNew(@, p.minted)
                              ELSE @]

\* the bookkeeping after a wave or test wave (mintedTxids counted)
counted(c, p) ==
  IF Len(p.minted) = 0 THEN c
  ELSE [c EXCEPT !.jobDone = @ + Len(p.minted),
                 !.completed = @ + Len(p.minted),
                 !.lastTxid = lastOf(p.minted, c.lastTxid),
                 !.allTxids = IF c.mode = "single" THEN pushNew(@, p.minted)
                              ELSE @]

\* start of syncWalletWithRetry, continuing at 'next' when it returns a wallet
toSync(c, next) == [c EXCEPT !.pc = "sync", !.next = next, !.attempt = 1]

\* waitForTxChainClear(watch) when a txid is known, else sleep(30000);
\* both are followed by syncWalletWithRetry and the next loop iteration
toWait(c, watch) ==
  IF watch # NoTx THEN [c EXCEPT !.pc = "wait", !.watch = watch]
  ELSE [c EXCEPT !.pc = "sleep"]

FreshOwed == [due |-> TRUE, del |-> FALSE, sync |-> FALSE, ok |-> FALSE]

owe(c) == [c EXCEPT !.owed = FreshOwed]

paid(c, what) ==
  IF ~c.owed.due THEN c
  ELSE CASE what = "del" -> [c EXCEPT !.owed.del = TRUE]
         [] what = "sync" -> [c EXCEPT !.owed.sync = TRUE]
         [] OTHER -> [c EXCEPT !.owed.ok = TRUE]

\* mints remain in this job or a later one
mintsRemain(c) ==
  \/ c.jobDone < c.jobs[c.job]
  \/ \E j \in DOMAIN c.jobs : j > c.job /\ c.jobs[j] > 0

\* history of what followed a successful wave
afterOk(c) == IF mintsRemain(c) THEN [c EXCEPT !.after = "ok"] ELSE c
afterWait(c) == IF c.after = "ok" THEN [c EXCEPT !.after = "waited"] ELSE c
afterSync(c) == IF c.after = "waited" THEN [c EXCEPT !.after = "synced"] ELSE c

\* req.on('close', () => { cancelled = true })
CtlCancel ==
  /\ UNCHANGED <<decoderVars, tripVars, restVars>>
  /\ ctlActive
  /\ ~ctl.cancelled
  /\ ctl' = [ctl EXCEPT !.cancelled = TRUE]
  /\ UNCHANGED <<pending, proc, chainNo, chainLen, st, nodeAcc, hist>>

\* a caller that goes on without a wallet
syncGaveUpGoOn(c) == [c EXCEPT !.pc = c.next]

\* syncWalletWithRetry returned null: every caller sends mintError and ends
\* the stream
syncGaveUp(c) == [c EXCEPT !.pc = "error"]

\* syncWalletWithRetry: loop head and syncWalletOnce's runDoginals(['wallet','sync'])
CtlSyncSpawn ==
  /\ UNCHANGED <<decoderVars, tripVars, restVars>>
  /\ ctl.pc = "sync"
  /\ IF ctl.attempt <= SYNC_MAX_TRIES /\ ~ctl.cancelled
     THEN /\ main("ctl", "walletsync", 0)
          /\ ctl' = [ctl EXCEPT !.pc = "syncwait"]
     ELSE /\ ctl' = syncGaveUp(ctl)
          /\ UNCHANGED <<pending, proc, chainNo, chainLen, st, nodeAcc, hist>>

\* syncWalletOnce resolves (child closed): a wallet, or null and the next attempt
CtlSyncDone ==
  /\ UNCHANGED <<decoderVars, tripVars, restVars>>
  /\ ctl.pc = "syncwait"
  /\ proc.pc = "exit"
  /\ proc' = ProcOff
  /\ ctl' = IF proc.code = 0
            THEN LET c1 == IF proc.ran = "walletsync" THEN paid(ctl, "sync")
                           ELSE ctl
                 IN [afterSync(c1) EXCEPT !.pc = ctl.next]
            ELSE [ctl EXCEPT !.pc = "sync", !.attempt = @ + 1]
  /\ UNCHANGED <<pending, chainNo, chainLen, st, nodeAcc, hist>>

\* head of the wave loop: leave it, move to the next job, or spawn a wave
CtlLoop ==
  /\ UNCHANGED <<decoderVars, tripVars, restVars>>
  /\ ctl.pc = "loop"
  /\ IF ctl.cancelled
     THEN /\ ctl' = [ctl EXCEPT !.pc = "done"]
          /\ UNCHANGED <<pending, proc, chainNo, chainLen, st, nodeAcc, hist>>
     ELSE IF ctl.jobDone >= ctl.jobs[ctl.job]
     THEN /\ ctl' = IF ctl.job < Len(ctl.jobs)
                    THEN [ctl EXCEPT !.job = @ + 1, !.jobDone = 0]
                    ELSE [ctl EXCEPT !.pc = "done"]
          /\ UNCHANGED <<pending, proc, chainNo, chainLen, st, nodeAcc, hist>>
     ELSE /\ main("ctl", "drc20mint", waveCount(ctl))
          /\ ctl' = [ctl EXCEPT !.pc = "wave", !.kind = "main", !.after = None]

\* const testWave = await runMintWave(testWaveCount)
CtlSpawnTest ==
  /\ UNCHANGED <<decoderVars, tripVars, restVars>>
  /\ ctl.pc = "test"
  /\ main("ctl", "drc20mint", waveCount(ctl))
  /\ ctl' = [ctl EXCEPT !.pc = "wave", !.kind = "test", !.after = None]

\* the wave's child closed: count its txids and pick the branch
CtlWaveDone ==
  /\ UNCHANGED <<decoderVars, tripVars, restVars>>
  /\ ctl.pc = "wave"
  /\ proc.pc = "exit"
  /\ proc' = ProcOff
  /\ UNCHANGED <<pending, chainNo, chainLen, st, nodeAcc, hist>>
  /\ IF ctl.mode = "single" /\ ctl.cancelled
     THEN ctl' = [ctl EXCEPT !.pc = "done"]     \* if (cancelled) break
     ELSE LET c1 == counted(ctl, proc) IN
          IF exitOk(proc)
          THEN \* successful wave or test wave
               LET c2 == afterOk(IF ctl.kind = "test" THEN paid(c1, "ok") ELSE c1) IN
               ctl' = IF ctl.mode = "single"
                      THEN toWait(c2, lastOf(proc.minted, c1.lastTxid))
                      ELSE [c2 EXCEPT !.pc = "loop"]
          ELSE IF hardError(proc)
          THEN ctl' = [c1 EXCEPT !.pc = "error"]
          ELSE \* chain-limit
               IF ctl.kind = "main"
               THEN ctl' = [owe(c1) EXCEPT !.pc = "del"]
               ELSE ctl' = toWait(owe(c1),
                                  IF c1.lastTxid # NoTx THEN c1.lastTxid
                                  ELSE lastOf(c1.allTxids, NoTx))

\* await deletePendingFile(), then the 'already fulfilled' check
CtlDeletePending ==
  /\ UNCHANGED <<decoderVars, tripVars, restVars>>
  /\ ctl.pc = "del"
  /\ pending' = <<>>
  /\ hist' = [hist EXCEPT !.dropped = @ \/ pending # <<>>]
  /\ ctl' = LET c1 == paid(ctl, "del") IN
            IF ctl.jobDone >= ctl.jobs[ctl.job]
            THEN IF ctl.mode = "single" THEN [c1 EXCEPT !.pc = "done"]
                 ELSE [c1 EXCEPT !.pc = "loop"]
            ELSE toSync(c1, "test")
  /\ UNCHANGED <<proc, chainNo, chainLen, st, nodeAcc>>

\* one check of waitForTxChainClear: isTxConfirmedOrGone(watch), else sleep 30s
CtlPoll(res) ==
  /\ UNCHANGED <<decoderVars, tripVars, restVars>>
  /\ ctl.pc = "wait"
  /\ res \in {"confirmed", "gone", "inmempool"}
  /\ LET c1 == IF ctl.cancelled
               THEN [ctl EXCEPT !.late = Min(@ + 1, MaxLatePolls)]
               ELSE ctl
     IN ctl' = IF res = "inmempool" THEN c1
               ELSE toSync([afterWait(paid(c1, "ok")) EXCEPT !.lastWait = res,
                                                             !.watch = NoTx],
                           "loop")
  /\ UNCHANGED <<pending, proc, chainNo, chainLen, st, nodeAcc, hist>>

\* await sleep(30000) when no txid is known, then syncWalletWithRetry
CtlSleepDone ==
  /\ UNCHANGED <<decoderVars, tripVars, restVars>>
  /\ ctl.pc = "sleep"
  /\ ctl' = toSync([afterWait(ctl) EXCEPT !.lastWait = "slept"], "loop")
  /\ UNCHANGED <<pending, proc, chainNo, chainLen, st, nodeAcc, hist>>

(***************************************************************************)
(* The command line: a user starts doginals.js while no stream is running  *)
(***************************************************************************)
CliStart(cmd, n) ==
  /\ UNCHANGED <<decoderVars, tripVars, restVars>>
  /\ ~ctlActive
  /\ main("cli", cmd, n)
  /\ UNCHANGED ctl

CliReap ==
  /\ UNCHANGED <<decoderVars, tripVars, restVars>>
  /\ proc.pc = "exit"
  /\ proc.by = "cli"
  /\ proc' = ProcOff
  /\ UNCHANGED <<pending, chainNo, chainLen, st, nodeAcc, hist, ctl>>

BroadcastStep ==
  \E r \in Responses :
    broadcastStep(r) /\ UNCHANGED <<ctl, decoderVars, tripVars, restVars>>

SendStep ==
  \E r \in Responses : sendStep(r) /\ UNCHANGED <<decoderVars, tripVars, restVars>>

\* what gettransaction and getrawmempool can answer for a txid
WalletViews == {"confirmed", "unconfirmed", "error"}

MempoolViews == {"listed", "unlisted", "error"}

\* isTxConfirmedOrGone: the wallet's view first, then mempool membership; a
\* mempool that cannot be queried counts as not cleared
isTxConfirmedOrGone(wallet, mempool) ==
  IF wallet = "confirmed" THEN "confirmed"
  ELSE IF mempool = "unlisted" THEN "gone"
  ELSE "inmempool"

PollStep ==
  \E wallet \in WalletViews, mempool \in MempoolViews :
    CtlPoll(isTxConfirmedOrGone(wallet, mempool))

CliRun ==
  \E cmd \in Cmds, n \in 1..MaxTotal :
    /\ cmd # "drc20mint" => n = 1
    /\ CliStart(cmd, n)

CtlStep ==
  \/ CtlCancel \/ CtlSyncSpawn \/ CtlSyncDone \/ CtlLoop \/ CtlSpawnTest
  \/ CtlWaveDone \/ CtlDeletePending \/ PollStep \/ CtlSleepDone

\* the requests a stream can be started with
JobLists ==
  {<<a>> : a \in 1..MaxTotal} \cup {<<a, b>> : a \in 1..MaxTotal, b \in 1..MaxTotal}

CtlInits ==
  {CtlOff}
  \cup {[toSync(CtlOff, "loop") EXCEPT !.mode = "single", !.jobs = <<t>>] :
          t \in 1..MaxTotal}
  \cup {[toSync(CtlOff, "loop") EXCEPT !.mode = "multi", !.jobs = j] :
          j \in JobLists}

MintInit(ctls) ==
  /\ pending = <<>>
  /\ proc = ProcOff
  /\ chainNo = 0
  /\ chainLen = 0
  /\ st = freshSt(0)
  /\ nodeAcc = {}
  /\ hist = FreshHist
  /\ ctl \in ctls

(***************************************************************************)
(* ====================  DECODER SIDE: CONTENT STORE  ==================== *)
(* decode.js: ensureInscriptionDecoded and the files and master.json it    *)
(* keeps under content/.  A request runs to completion before the next one *)
(* starts; the chain walk is taken as the payload the node holds for the   *)
(* base txid.  createdAt and the progress map are not tracked here.        *)
(***************************************************************************)
Txids == {"ta", "tb"}

\* an id as typed: n = -1 is the bare <txid>, n >= 0 is <txid>iN
Id(t, n) == [txid |-> t, n |-> n]

NoId == Id(None, -1)

Ids == {Id(t, n) : t \in Txids, n \in -1..MaxSuffix}

\* /i\d+$/.test(clean)
hasSuffix(id) == id.n >= 0

\* replace(/i\d+$/, "")
stripSuffix(id) == Id(id.txid, -1)

\* `${...}i0`
withI0(id) == Id(id.txid, 0)

\* ensureInscriptionDecoded: inscriptionId of the id as typed
normalizedId(id) == IF hasSuffix(id) THEN id ELSE withI0(stripSuffix(id))

\* a name under content/: <stem>.<ext>, or <stem> alone when ext = ""
FileName(stem, ext) == [stem |-> stem, ext |-> ext]

\* lower.startsWith(cand + ".")
startsWithDot(f, cand) == f.ext # "" /\ f.stem = cand

\* every path findContentFile can return (readdir order is the platform's);
\* the empty set stands for null
findContentFile(fs, id) ==
  LET base == id
      cleaned == stripSuffix(base)
      candidates == {base, cleaned, withI0(cleaned)}
  IN {f \in DOMAIN fs : \E cand \in candidates : startsWithDot(f, cand)}

OCTET == "application/octet-stream"

normalizeMimeType(mimeType) ==
  CASE mimeType = "" -> OCTET
    [] mimeType = "text/html;charset=utf-8" -> "text/html"
    [] OTHER -> mimeType

\* mime.extension(mimeType) || "bin"
mimeExtension(mimeType) ==
  CASE mimeType = "image/png" -> "png"
    [] mimeType = "text/html" -> "html"
    [] mimeType = "model/gltf-binary" -> "glb"
    [] OTHER -> "bin"

\* mime.lookup(fileExt), "" when it is false
mimeLookup(ext) ==
  CASE ext = "png" -> "image/png"
    [] ext = "html" -> "text/html"
    [] ext = "glb" -> "model/gltf-binary"
    [] ext = "bin" -> OCTET
    [] OTHER -> ""

isWeakExtOrMime(ext, mimeType) ==
  ext = "" \/ ext = "bin" \/ normalizeMimeType(mimeType) = OCTET

isTextLikeMime(mimeType) == normalizeMimeType(mimeType) \in {"text/html"}

\* server.js: mt.includes("html") || mt.includes("svg")
includesHtmlOrSvg(mimeType) ==
  mimeType \in {"text/html", "text/html;charset=utf-8"}

\* a buffer or file content: its byte size, the magic its first bytes carry,
\* and the txid whose payload it is (its text is that payload's text)
Buf(size, magic, src) == [size |-> size, magic |-> magic, src |-> src]

NoBuf == Buf(0, None, None)

sniffFileTypeFromBuffer(buf) ==
  IF buf.size < 4 THEN [mimeType |-> None, ext |-> None]
  ELSE CASE buf.magic = "glb" -> [mimeType |-> "model/gltf-binary", ext |-> "glb"]
         [] buf.magic = "png" -> [mimeType |-> "image/png", ext |-> "png"]
         [] OTHER -> [mimeType |-> None, ext |-> None]

\* what the node holds for a txid: no inscription, or a declared mime type,
\* the length of the collected hex, the magic of the bytes, and for html the
\* txids its text references, in the order of the text (mv: each of them as
\* <model-viewer src>)
NoData ==
  [data |-> FALSE, mime |-> "", hexLen |-> 0, magic |-> None,
   refs |-> <<>>, mv |-> FALSE]

\* the reference lists of an html payload: up to MaxRefs distinct txids
RefLists ==
  {q \in UNION {[1..n -> Txids] : n \in 0..MaxRefs} :
     \A i, j \in DOMAIN q : i # j => q[i] # q[j]}

\* html; without references it has no <model-viewer src> either
HtmlKinds ==
  {k \in {[data |-> TRUE, mime |-> "text/html;charset=utf-8", hexLen |-> 16,
           magic |-> None, refs |-> q, mv |-> m] : q \in RefLists, m \in BOOLEAN} :
     k.mv => k.refs # <<>>}

ChainKinds ==
  {NoData}
  \cup {[data |-> TRUE, mime |-> "image/png", hexLen |-> h, magic |-> "png",
         refs |-> <<>>, mv |-> FALSE] : h \in {16, 17}}
  \cup {[data |-> TRUE, mime |-> OCTET, hexLen |-> h, magic |-> g,
         refs |-> <<>>, mv |-> FALSE] : h \in {16, 17}, g \in {None, "glb", "png"}}
  \cup HtmlKinds

Put(f, k, v) == [x \in DOMAIN f \cup {k} |-> IF x = k THEN v ELSE f[x]]

Drop(f, k) == [x \in DOMAIN f \ {k} |-> f[x]]

EmptyMap == [x \in {} |-> None]

\* fs.statSync(path).size
statSize(fs, f) == fs[f].size

\* ---- progress entries (decode.js progressMap) ----

\* a field that is still null
Null == -1

baseProgressObject ==
  [chunksFound |-> 0, estimatedTotal |-> Null, active |-> TRUE,
   label |-> "init", depTotal |-> Null, depDone |-> 0]

getProgress(pm, key) == key \in DOMAIN pm

resetProgressForId(pm, key) == Drop(pm, key)

initProgress(pm, key) == Put(pm, key, baseProgressObject)

\* the entry of key, or a fresh one: progressMap.get(key) || baseProgressObject(key)
entryOrBase(pm, key) == IF key \in DOMAIN pm THEN pm[key] ELSE baseProgressObject

\* the estimate is overwritten by every report, larger or not
updateProgressOverwrite(pm, key, label, chunksFoundInStep, numChunksReported) ==
  LET p == entryOrBase(pm, key)
      found == IF chunksFoundInStep > 0 THEN p.chunksFound + chunksFoundInStep
               ELSE p.chunksFound
  IN Put(pm, key, [p EXCEPT !.chunksFound = found,
                            !.estimatedTotal = IF numChunksReported # Null
                                               THEN found + numChunksReported ELSE @,
                            !.label = label, !.active = TRUE])

\* numChunksReported is Null when it is not a number
updateProgress(pm, key, label, chunksFoundInStep, numChunksReported) ==
  LET p == entryOrBase(pm, key)
      found == IF chunksFoundInStep > 0 THEN p.chunksFound + chunksFoundInStep
               ELSE p.chunksFound
      candidateTotal == found + numChunksReported
      estimatedTotal ==
        IF numChunksReported # Null
           /\ (p.estimatedTotal = Null \/ p.estimatedTotal = 0
               \/ candidateTotal > p.estimatedTotal)
        THEN candidateTotal ELSE p.estimatedTotal
  IN Put(pm, key, [p EXCEPT !.chunksFound = found,
                            !.estimatedTotal = estimatedTotal,
                            !.label = label, !.active = TRUE])

setDependencyPlan(pm, key, totalDeps) ==
  IF totalDeps <= 0 THEN pm
  ELSE Put(pm, key, [entryOrBase(pm, key) EXCEPT !.depTotal = totalDeps,
                                                 !.depDone = 0])

incrementDependencyDone(pm, key) ==
  IF key \notin DOMAIN pm THEN pm
  ELSE [pm EXCEPT ![key].depDone = @ + 1]

completeProgress(pm, key) ==
  IF key \notin DOMAIN pm THEN pm
  ELSE [pm EXCEPT ![key].active = FALSE]

\* decodeDoginalsChain on entry: an entry that exists is kept as it is
startProgress(pm, key) ==
  IF ~getProgress(pm, key) THEN initProgress(resetProgressForId(pm, key), key)
  ELSE pm

\* { ...existing, ...meta }
merged(existing, meta) ==
  [f \in DOMAIN existing \cup DOMAIN meta |->
     IF f \in DOMAIN meta THEN meta[f] ELSE existing[f]]

\* the creation time is taken from the update when it carries one
upsertMasterEntryMetaFirst(ms, meta) ==
  LET existing == IF meta.inscriptionId \in DOMAIN ms THEN ms[meta.inscriptionId]
                  ELSE EmptyMap
      createdAt == IF "createdAt" \in DOMAIN meta THEN meta.createdAt
                   ELSE IF "createdAt" \in DOMAIN existing THEN existing.createdAt
                   ELSE now
  IN Put(ms, meta.inscriptionId,
         merged(merged(existing, meta), [createdAt |-> createdAt]))

\* a time stamp is a non-empty string, so one that is present is taken
upsertMasterEntry(ms, meta) ==
  LET existing == IF meta.inscriptionId \in DOMAIN ms THEN ms[meta.inscriptionId]
                  ELSE EmptyMap
      createdAt == IF "createdAt" \in DOMAIN existing THEN existing.createdAt
                   ELSE IF "createdAt" \in DOMAIN meta THEN meta.createdAt
                   ELSE now
  IN Put(ms, meta.inscriptionId,
         merged(merged(existing, meta), [createdAt |-> createdAt]))

Meta(inscriptionId, txid, filename, mimeType, ext, size) ==
  [inscriptionId |-> inscriptionId, txid |-> txid, filename |-> filename,
   mimeType |-> mimeType, ext |-> ext, size |-> size]

\* dataHex += "00000" when the length is odd, unless skipOddHexPad
paddedHexLen(hexLen, skipOddHexPad) ==
  IF ~skipOddHexPad /\ hexLen % 2 # 0 THEN hexLen + 5 ELSE hexLen

\* Buffer.from(dataHex, "hex").length: a trailing half byte is dropped
bufferFromHexSize(hexLen) == hexLen \div 2

\* when the sniffed name is taken, the file just written is left in place
\* under its declared name and type
maybeRenameUnlessTaken(fs, outPath, inscriptionId, currentMime, currentExt) ==
  LET mt == normalizeMimeType(currentMime)
      weak == currentExt = "" \/ currentExt = "bin" \/ mt = OCTET
      same == [files |-> fs, outPath |-> outPath, mimeType |-> mt, ext |-> currentExt]
      sniff == sniffFileTypeFromBuffer(fs[outPath])
      newMime == IF sniff.mimeType # None THEN sniff.mimeType ELSE mt
      newPath == FileName(inscriptionId, sniff.ext)
  IN IF ~weak \/ sniff.ext = None \/ newPath \in DOMAIN fs THEN same
     ELSE [files |-> Put(Drop(fs, outPath), newPath, fs[outPath]),
           outPath |-> newPath, mimeType |-> newMime, ext |-> sniff.ext]

\* the file and its metadata are left as declared
maybeRenameNever(fs, outPath, inscriptionId, currentMime, currentExt) ==
  [files |-> fs, outPath |-> outPath, mimeType |-> normalizeMimeType(currentMime),
   ext |-> currentExt]

maybeRenameFileToSniffedType(fs, outPath, inscriptionId, currentMime, currentExt) ==
  LET mt == normalizeMimeType(currentMime)
      weak == currentExt = "" \/ currentExt = "bin" \/ mt = OCTET
      same == [files |-> fs, outPath |-> outPath, mimeType |-> mt, ext |-> currentExt]
      sniff == sniffFileTypeFromBuffer(fs[outPath])
      newMime == IF sniff.mimeType # None THEN sniff.mimeType ELSE mt
      newPath == FileName(inscriptionId, sniff.ext)
  IN IF ~weak THEN same
     ELSE IF sniff.ext = None THEN same
     ELSE IF newPath # outPath
       THEN IF newPath \in DOMAIN fs
              THEN [files |-> Drop(fs, outPath), outPath |-> newPath,
                    mimeType |-> newMime, ext |-> sniff.ext]
              ELSE [files |-> Put(Drop(fs, outPath), newPath, fs[outPath]),
                    outPath |-> newPath, mimeType |-> newMime, ext |-> sniff.ext]
       ELSE [files |-> fs, outPath |-> outPath, mimeType |-> newMime, ext |-> sniff.ext]

\* the raw no-extension file is written and left in place, never renamed
saveModelViewerNoRename(fs, ms, inscriptionId, baseTxid, buf) ==
  [files |-> Put(fs, FileName(inscriptionId, ""), buf),
   master |-> upsertMasterEntry(ms,
      Meta(inscriptionId, baseTxid, FileName(inscriptionId, "glb"),
           "model/gltf-binary", "glb", buf.size))]

saveModelViewerNoExtThenGlb(fs, ms, inscriptionId, baseTxid, buf) ==
  LET rawOutPath == FileName(inscriptionId, "")
      glbOutPath == FileName(inscriptionId, "glb")
      written == Put(fs, rawOutPath, buf)
      renamed == Put(Drop(Drop(written, glbOutPath), rawOutPath), glbOutPath,
                     written[rawOutPath])
  IN [files |-> renamed,
      master |-> upsertMasterEntry(ms,
         Meta(inscriptionId, baseTxid, glbOutPath, "model/gltf-binary", "glb",
              statSize(renamed, glbOutPath)))]

\* decodeDoginalsChain, by its result: the payload the node holds
decodeDoginalsChain(genesisTxid) == chain[genesisTxid]

reconstructAndReturnBuffer(fs, ms, baseTxid, skipOddHexPad) ==
  LET d == decodeDoginalsChain(baseTxid)
      resultBuf == Buf(bufferFromHexSize(paddedHexLen(d.hexLen, skipOddHexPad)),
                       d.magic, baseTxid)
      mimeType0 == normalizeMimeType(d.mime)
      ext0 == mimeExtension(mimeType0)
      inscriptionId == Id(baseTxid, 0)
      outPath0 == FileName(inscriptionId, ext0)
      renamed == maybeRenameFileToSniffedType(Put(fs, outPath0, resultBuf),
                    outPath0, inscriptionId, mimeType0, ext0)
  IN [files |-> renamed.files,
      master |-> upsertMasterEntry(ms,
         Meta(inscriptionId, baseTxid, renamed.outPath, renamed.mimeType,
              renamed.ext, statSize(renamed.files, renamed.outPath))),
      resultBuf |-> resultBuf,
      mimeType |-> renamed.mimeType,
      inscriptionId |-> inscriptionId]

\* what one ensureInscriptionDecoded call hands back, and whether it walked
\* the chain (rpc)
Res(ok, inscriptionId, mimeType, fromCache, rpc, buf) ==
  [ok |-> ok, inscriptionId |-> inscriptionId, mimeType |-> mimeType,
   fromCache |-> fromCache, rpc |-> rpc, buf |-> buf]

\* master entry present and its file exists
cachedOutcome(fs, ms, inscriptionId, candidate) ==
  LET masterEntry == ms[inscriptionId]
      fileExt == candidate.ext
      mimeType0 == normalizeMimeType(masterEntry.mimeType)
      sniff == sniffFileTypeFromBuffer(fs[candidate])
      fix == /\ (fileExt = "bin" \/ mimeType0 = OCTET \/ masterEntry.ext \in {"", "bin"})
             /\ (sniff.ext # None \/ sniff.mimeType # None)
      fixedExt == IF sniff.ext # None THEN sniff.ext ELSE fileExt
      fixedMime == IF sniff.mimeType # None THEN sniff.mimeType ELSE mimeType0
  IN [files |-> fs,
      master |-> IF fix
                 THEN upsertMasterEntry(ms,
                        Meta(inscriptionId, inscriptionId.txid, candidate,
                             fixedMime, fixedExt, statSize(fs, candidate)))
                 ELSE ms,
      res |-> Res(TRUE, inscriptionId, IF fix THEN fixedMime ELSE mimeType0,
                  TRUE, FALSE, NoBuf)]

\* no master entry, but findContentFile returned existingFile
registeredOutcome(fs, ms, inscriptionId, existingFile) ==
  LET fileExt == existingFile.ext
      looked == normalizeMimeType(mimeLookup(fileExt))
      weak == fileExt = "bin" \/ looked = OCTET
      sniff == sniffFileTypeFromBuffer(fs[existingFile])
      mimeType == IF weak /\ sniff.mimeType # None THEN sniff.mimeType ELSE looked
      ext == IF weak /\ sniff.ext # None THEN sniff.ext ELSE fileExt
  IN [files |-> fs,
      master |-> upsertMasterEntry(ms,
                   Meta(inscriptionId, inscriptionId.txid, existingFile,
                        mimeType, ext, statSize(fs, existingFile))),
      res |-> Res(TRUE, inscriptionId, mimeType, TRUE, FALSE, NoBuf)]

\* the chain is walked and the payload is written
decodedOutcome(fs, ms, mvSet, inscriptionId) ==
  LET baseTxid == inscriptionId.txid
      isModelViewerSrc == inscriptionId \in mvSet
      r == reconstructAndReturnBuffer(fs, ms, baseTxid, isModelViewerSrc)
      mt == normalizeMimeType(r.mimeType)
      ext == mimeExtension(mt)
      s == IF isModelViewerSrc /\ isWeakExtOrMime(ext, mt)
           THEN saveModelViewerNoExtThenGlb(r.files, r.master, r.inscriptionId,
                                            baseTxid, r.resultBuf)
           ELSE [files |-> r.files, master |-> r.master]
  IN IF ~decodeDoginalsChain(baseTxid).data
     THEN [files |-> fs, master |-> ms,
           res |-> Res(FALSE, NoId, "", FALSE, TRUE, NoBuf)]
     ELSE [files |-> s.files, master |-> s.master,
           res |-> Res(TRUE, r.inscriptionId, r.mimeType, FALSE, TRUE, r.resultBuf)]

\* every outcome of ensureInscriptionDecoded(idOrTxid) on the store (fs, ms)
ensureInscriptionDecoded(fs, ms, mvSet, idOrTxid) ==
  LET inscriptionId == normalizedId(idOrTxid)
      existing == findContentFile(fs, inscriptionId)
  IN IF inscriptionId \in DOMAIN ms
     THEN IF ms[inscriptionId].filename \in DOMAIN fs
          THEN {cachedOutcome(fs, ms, inscriptionId, ms[inscriptionId].filename)}
          ELSE {decodedOutcome(fs, ms, mvSet, inscriptionId)}
     ELSE IF existing # {}
          THEN {registeredOutcome(fs, ms, inscriptionId, f) : f \in existing}
          ELSE {decodedOutcome(fs, ms, mvSet, inscriptionId)}

\* decodeDoginalsChain's calls on the progress entry of progressKey: the
\* payload arrives as one chunk of the genesis input, whose countdown is 0
decodeProgress(pm, progressKey, genesisTxid) ==
  LET started == startProgress(pm, progressKey)
  IN IF ~decodeDoginalsChain(genesisTxid).data
     THEN completeProgress(started, progressKey)
     ELSE completeProgress(
            updateProgress(started, progressKey, "genesis", 1, 0), progressKey)

\* ids the text of a payload references, in the order a Set iterates them
extractDepsFromText(buf) ==
  IF buf.src \in Txids
  THEN [i \in DOMAIN chain[buf.src].refs |-> Id(chain[buf.src].refs[i], 0)]
  ELSE <<>>

extractModelViewerSrcDependenciesFromHtml(buf) ==
  IF buf.src \in Txids /\ chain[buf.src].mv THEN Range(extractDepsFromText(buf))
  ELSE {}

\* the loop over deps as work still to do: each dependency, then the
\* incrementDependencyDone that follows it (NoId)
RECURSIVE depsWork(_)
depsWork(deps) ==
  IF deps = <<>> THEN <<>> ELSE <<Head(deps), NoId>> \o depsWork(Tail(deps))

\* the dependencies in work that were not reached
RECURSIVE depsIn(_)
depsIn(work) ==
  IF work = <<>> THEN <<>>
  ELSE IF Head(work) = NoId THEN depsIn(Tail(work))
  ELSE <<Head(work)>> \o depsIn(Tail(work))

\* the incrementDependencyDone calls that are due before the next dependency
RECURSIVE settle(_, _, _)
settle(pm, key, work) ==
  IF work # <<>> /\ Head(work) = NoId
  THEN settle(incrementDependencyDone(pm, key), key, Tail(work))
  ELSE [pm |-> pm, todo |-> work]

\* a request: where it is, the work its dependency loops still hold, the
\* visited set, its progress key; and what it did: how often it scanned the
\* payload of each txid, how many turns its dependency loops took, whether
\* its last call was for a dependency, whether it threw, and the dependencies
\* it then left unattempted, and the number of distinct dependencies of its
\* top-level payload
ReqIdle ==
  [pc |-> "idle", todo |-> <<>>, visited |-> {}, key |-> None,
   scans |-> [t \in Txids |-> 0], turns |-> 0, dep |-> FALSE,
   threw |-> FALSE, dropped |-> <<>>, top |-> 0]

\* the visited check is missing: every call scans
scanStartUnvisited(fs, r, mvSet, inscriptionId, mimeType, buffer) ==
  LET baseTxid == inscriptionId.txid
      skip == [todo |-> r.todo, visited |-> r.visited, mv |-> mvSet, plan |-> 0,
               scans |-> r.scans]
      bufs == IF buffer # NoBuf THEN {buffer}
              ELSE {fs[f] : f \in findContentFile(fs, inscriptionId)}
  IN IF ~isTextLikeMime(mimeType) THEN {skip}
     ELSE IF bufs = {} THEN {[skip EXCEPT !.visited = @ \cup {baseTxid}]}
     ELSE {[todo |-> depsWork(extractDepsFromText(b)) \o r.todo,
            visited |-> r.visited \cup {baseTxid},
            mv |-> mvSet \cup extractModelViewerSrcDependenciesFromHtml(b),
            plan |-> Len(extractDepsFromText(b)),
            scans |-> [r.scans EXCEPT ![baseTxid] = @ + 1]]
           : b \in bufs}

\* handleHtmlSvgDependencies up to its first await: the visited check, the
\* scan of the text and the model-viewer bookkeeping; the dependencies found
\* are decoded one by one before the caller's remaining ones
scanStart(fs, r, mvSet, inscriptionId, mimeType, buffer) ==
  LET baseTxid == inscriptionId.txid
      skip == [todo |-> r.todo, visited |-> r.visited, mv |-> mvSet, plan |-> 0,
               scans |-> r.scans]
      bufs == IF buffer # NoBuf THEN {buffer}
              ELSE {fs[f] : f \in findContentFile(fs, inscriptionId)}
  IN IF ~isTextLikeMime(mimeType) \/ baseTxid \in r.visited THEN {skip}
     ELSE IF bufs = {} THEN {[skip EXCEPT !.visited = @ \cup {baseTxid}]}
     ELSE {[todo |-> depsWork(extractDepsFromText(b)) \o r.todo,
            visited |-> r.visited \cup {baseTxid},
            mv |-> mvSet \cup extractModelViewerSrcDependenciesFromHtml(b),
            plan |-> Len(extractDepsFromText(b)),
            scans |-> [r.scans EXCEPT ![baseTxid] = @ + 1]]
           : b \in bufs}

\* stale: the id had a master entry whose recorded file was missing;
\* mv: the id was in modelViewerSrcSet
NoLast ==
  [id |-> NoId, ok |-> FALSE, inscriptionId |-> NoId, fromCache |-> FALSE,
   rpc |-> FALSE, again |-> FALSE, firstId |-> NoId, stale |-> FALSE,
   mv |-> FALSE]

\* the store after one call, and the record of the call
called(idOrTxid, o) ==
  /\ files' = o.files
  /\ master' = o.master
  /\ last' = [id |-> idOrTxid, ok |-> o.res.ok,
              inscriptionId |-> o.res.inscriptionId,
              fromCache |-> o.res.fromCache, rpc |-> o.res.rpc,
              again |-> first[idOrTxid] # NoId, firstId |-> first[idOrTxid],
              stale |-> /\ normalizedId(idOrTxid) \in DOMAIN master
                        /\ master[normalizedId(idOrTxid)].filename
                             \notin DOMAIN files,
              mv |-> normalizedId(idOrTxid) \in modelViewerSrcSet]
  /\ first' = IF o.res.ok /\ first[idOrTxid] = NoId
              THEN [first EXCEPT ![idOrTxid] = o.res.inscriptionId]
              ELSE first

\* the progress entries after the call for idOrTxid returned o
progressAfter(pm, progressKey, idOrTxid, o) ==
  IF o.res.rpc THEN decodeProgress(pm, progressKey, normalizedId(idOrTxid).txid)
  ELSE pm

\* the rest of the request after the call returned o, pm being the progress
\* entries the call left; scan tells whether the caller goes on into
\* handleHtmlSvgDependencies. A call that throws ends the request.
resolving(r, o, scan, pm) ==
  IF ~o.res.ok
  THEN /\ req' = [r EXCEPT !.pc = "idle", !.todo = <<>>, !.threw = TRUE,
                           !.visited = {}, !.dropped = depsIn(r.todo)]
       /\ progressMap' = pm
       /\ UNCHANGED modelViewerSrcSet
  ELSE \E s \in IF scan
                THEN scanStart(o.files, r, modelViewerSrcSet, o.res.inscriptionId,
                               o.res.mimeType, o.res.buf)
                ELSE {[todo |-> r.todo, visited |-> r.visited,
                       mv |-> modelViewerSrcSet, plan |-> 0, scans |-> r.scans]} :
         LET done == settle(setDependencyPlan(pm, r.key, s.plan), r.key, s.todo)
         IN /\ req' = [r EXCEPT !.pc = IF done.todo = <<>> THEN "idle" ELSE "deps",
                                !.todo = done.todo,
                                !.visited = IF done.todo = <<>> THEN {}
                                            ELSE s.visited,
                                !.scans = s.scans,
                                !.top = IF r.dep THEN @ ELSE s.plan]
            /\ progressMap' = done.pm
            /\ modelViewerSrcSet' = s.mv

\* GET /api/inscription/:id; the chunk count of its progress entry is kept
\* within the bound
RequestInscription(rawId) ==
  /\ req.pc = "idle"
  /\ entryOrBase(progressMap, normalizedId(rawId).txid).chunksFound <= MaxProgress
  /\ LET progressKey == normalizedId(rawId).txid
     IN \E o \in ensureInscriptionDecoded(files, master, modelViewerSrcSet, rawId) :
          /\ called(rawId, o)
          /\ resolving([ReqIdle EXCEPT !.key = progressKey], o,
                       includesHtmlOrSvg(o.res.mimeType),
                       progressAfter(progressMap, progressKey, rawId, o))
  /\ UNCHANGED <<chain, lost, now, upserts, mintVars, tripVars, restVars>>

\* one turn of the loop over deps in handleHtmlSvgDependencies; a failing
\* dependency decode throws out of the loop and out of the request
DependencyStep ==
  /\ req.pc = "deps"
  /\ LET depId == Head(req.todo)
         r == [req EXCEPT !.todo = Tail(@), !.dep = TRUE, !.turns = @ + 1]
     IN \E o \in ensureInscriptionDecoded(files, master, modelViewerSrcSet, depId) :
          /\ called(depId, o)
          /\ resolving(r, o, isTextLikeMime(o.res.mimeType),
                       progressAfter(progressMap, req.key, depId, o))
  /\ UNCHANGED <<chain, lost, now, upserts, mintVars, tripVars, restVars>>

RequestStep == \E rawId \in Ids : RequestInscription(rawId)

\* a file under content/ is removed from outside while no request is served
RemoveFile(f) ==
  /\ req.pc = "idle"
  /\ lost < MaxLost
  /\ f \in DOMAIN files
  /\ files' = Drop(files, f)
  /\ lost' = lost + 1
  /\ UNCHANGED <<master, modelViewerSrcSet, chain, req, last, first,
                 progressMap, now, upserts, mintVars, tripVars, restVars>>

\* any sequence of calls on the progress entries
ProgressKeys == {"ta"}

ProgressStart(key) ==
  /\ progressMap' = startProgress(progressMap, key)
  /\ UNCHANGED <<master, files, modelViewerSrcSet, chain, req, last, first,
                 lost, now, upserts, mintVars, tripVars, restVars>>

ProgressUpdate(key, label, chunksFoundInStep, numChunksReported) ==
  /\ entryOrBase(progressMap, key).chunksFound + chunksFoundInStep <= MaxProgress
  /\ progressMap' = updateProgress(progressMap, key, label, chunksFoundInStep,
                                   numChunksReported)
  /\ UNCHANGED <<master, files, modelViewerSrcSet, chain, req, last, first,
                 lost, now, upserts, mintVars, tripVars, restVars>>

ProgressPlan(key, totalDeps) ==
  /\ progressMap' = setDependencyPlan(progressMap, key, totalDeps)
  /\ UNCHANGED <<master, files, modelViewerSrcSet, chain, req, last, first,
                 lost, now, upserts, mintVars, tripVars, restVars>>

ProgressIncrement(key) ==
  /\ entryOrBase(progressMap, key).depDone < MaxProgress
  /\ progressMap' = incrementDependencyDone(progressMap, key)
  /\ UNCHANGED <<master, files, modelViewerSrcSet, chain, req, last, first,
                 lost, now, upserts, mintVars, tripVars, restVars>>

ProgressComplete(key) ==
  /\ progressMap' = completeProgress(progressMap, key)
  /\ UNCHANGED <<master, files, modelViewerSrcSet, chain, req, last, first,
                 lost, now, upserts, mintVars, tripVars, restVars>>

DecoderIdle ==
  /\ master = EmptyMap
  /\ files = EmptyMap
  /\ modelViewerSrcSet = {}
  /\ req = ReqIdle
  /\ last = NoLast
  /\ first = [id \in Ids |-> NoId]
  /\ progressMap = EmptyMap
  /\ lost = 0
  /\ now = 0
  /\ upserts = [id \in Ids |-> 0]


(***************************************************************************)
(* ==============  BUILDER TO WALKER: THE ENVELOPE ON THE WIRE  ========== *)
(* doginals.js inscribe packs the payload into scriptSig chunks; the node  *)
(* hands each scriptSig back as asm text (getrawtransaction, verbose);     *)
(* decode.js decodeDoginalsChain reads the tokens of that text.  Bytes are *)
(* 0..255.  A character of the asm text is 0..15 for the hex digits        *)
(* 0..9a..f, 16 for '-', 17 for any other character.                       *)
(***************************************************************************)
MAX_CHUNK_LEN == 240

MAX_PAYLOAD_LEN == 1500

\* doginals.js
MAX_SCRIPT_ELEMENT_SIZE == 520

\* 'ord'
OrdBytes == <<111, 114, 100>>

\* 'text/plain;charset=utf-8'
TextPlain == <<116, 101, 120, 116, 47, 112, 108, 97, 105, 110, 59, 99, 104, 97, 114, 115, 101, 116, 61, 117, 116, 102, 45, 56>>

\* 'image/png'
ImagePng == <<105, 109, 97, 103, 101, 47, 112, 110, 103>>

\* 'application/octet-stream'
OctetStreamBytes == <<97, 112, 112, 108, 105, 99, 97, 116, 105, 111, 110, 47, 111, 99, 116, 101, 116, 45, 115, 116, 114, 101, 97, 109>>

ContentTypes == {TextPlain, ImagePng}

\* payload lengths tried: around one byte, around one part of 240 bytes,
\* around the six parts that fill the first partial envelope
TripLengths == {1, 2, 4, 5, 239, 240, 241, 244, 245, 1440, 1441, 1445, 1500}

\* first byte of the payload; byte x of the payload is (fill + x) mod 256
ByteFills == {0, 64, 128}

payloadOf(fill, len) == [x \in 1..len |-> (fill + x) % 256]

bufferToChunk(b) ==
  [buf |-> b, len |-> Len(b),
   opcodenum |-> IF Len(b) <= 75 THEN Len(b) ELSE IF Len(b) <= 255 THEN 76 ELSE 77]

numberToChunk(n) ==
  [buf |-> IF n <= 16 THEN <<>> ELSE IF n < 128 THEN <<n>> ELSE <<n % 256, n \div 256>>,
   len |-> IF n <= 16 THEN 0 ELSE IF n < 128 THEN 1 ELSE 2,
   opcodenum |-> IF n = 0 THEN 0 ELSE IF n <= 16 THEN 80 + n ELSE IF n < 128 THEN 1 ELSE 2]

\* the parts loop of inscribe: slices of at most MAX_CHUNK_LEN bytes
dataParts(data) ==
  LET k == (Len(data) + MAX_CHUNK_LEN - 1) \div MAX_CHUNK_LEN
  IN [p \in 1..k |-> SubSeq(data, (p - 1) * MAX_CHUNK_LEN + 1,
                            Min(p * MAX_CHUNK_LEN, Len(data)))]

\* the inscription script: 'ord', part count, content type, then for each
\* part the number of parts after it and the part
inscriptionChunks(contentType, data) ==
  LET parts == dataParts(data)
      k == Len(parts)
  IN <<bufferToChunk(OrdBytes), numberToChunk(k), bufferToChunk(contentType)>>
     \o [x \in 1..(2 * k) |->
           IF x % 2 = 1 THEN numberToChunk(k - (x + 1) \div 2)
           ELSE bufferToChunk(parts[x \div 2])]

\* bytes one chunk takes in Script.toBuffer()
chunkBytes(c) ==
  1 + (IF c.opcodenum = 76 THEN 1 ELSE IF c.opcodenum = 77 THEN 2 ELSE 0) + c.len

RECURSIVE scriptBytes(_)
scriptBytes(chunks) ==
  IF chunks = <<>> THEN 0 ELSE chunkBytes(Head(chunks)) + scriptBytes(Tail(chunks))

\* while (partial.toBuffer().length <= MAX_PAYLOAD_LEN && chunks.length)
RECURSIVE fillPartial(_, _)
fillPartial(partial, rest) ==
  IF scriptBytes(partial) <= MAX_PAYLOAD_LEN /\ rest # <<>>
  THEN fillPartial(partial \o SubSeq(rest, 1, 2), SubSeq(rest, 3, Len(rest)))
  ELSE [partial |-> partial, rest |-> rest]

\* a turn that keeps whatever the inner loop took
nextPartialNoPop(chunks, isFirst) ==
  IF isFirst THEN fillPartial(<<Head(chunks)>>, Tail(chunks))
  ELSE fillPartial(<<>>, chunks)

\* one turn of the outer loop of inscribe: the next partial envelope and the
\* chunks left for later ones
nextPartial(chunks, isFirst) ==
  LET f == IF isFirst THEN fillPartial(<<Head(chunks)>>, Tail(chunks))
           ELSE fillPartial(<<>>, chunks)
      n == Len(f.partial)
  IN IF scriptBytes(f.partial) > MAX_PAYLOAD_LEN
     THEN [partial |-> SubSeq(f.partial, 1, n - 2),
           rest |-> SubSeq(f.partial, n - 1, n) \o f.rest]
     ELSE f

RECURSIVE partialsOf(_, _)
partialsOf(chunks, isFirst) ==
  IF chunks = <<>> THEN <<>>
  ELSE LET p == nextPartial(chunks, isFirst)
       IN <<p.partial>> \o partialsOf(p.rest, FALSE)

\* decimal digits of n >= 0
RECURSIVE digits(_)
digits(n) == IF n < 10 THEN <<n>> ELSE digits(n \div 10) \o <<n % 10>>

toHex(b) ==
  [x \in 1..(2 * Len(b)) |->
     IF x % 2 = 1 THEN b[(x + 1) \div 2] \div 16 ELSE b[x \div 2] % 16]

RECURSIVE littleEndian(_)
littleEndian(b) == IF b = <<>> THEN 0 ELSE Head(b) + 256 * littleEndian(Tail(b))

\* the number a push of at most 4 bytes stands for in Script: little endian,
\* the top bit of the last byte is the sign
scriptNum(b) ==
  IF b = <<>> THEN 0
  ELSE IF b[Len(b)] >= 128
       THEN 0 - littleEndian([b EXCEPT ![Len(b)] = @ - 128])
       ELSE littleEndian(b)

signedDigits(v) == IF v < 0 THEN <<16>> \o digits(0 - v) ELSE digits(v)

\* how the node prints one chunk of a scriptSig in asm: OP_0 and OP_1..OP_16
\* as the number, a push of at most 4 bytes as its number in decimal (this
\* is why 'ord' reads 6582895), a longer push as hex
asmToken(c) ==
  IF c.opcodenum = 0 THEN <<0>>
  ELSE IF c.opcodenum > 80 THEN digits(c.opcodenum - 80)
  ELSE IF c.len <= 4 THEN signedDigits(scriptNum(c.buf))
  ELSE toHex(c.buf)

asmOf(chunks) == [x \in 1..Len(chunks) |-> asmToken(chunks[x])]

\* a signature push prints as hex followed by [ALL]; shortened here
SigToken == <<3, 0, 4, 4, 0, 2, 17, 17>>

\* the lock script push (public key, OP_CHECKSIGVERIFY, OP_DROPs, OP_TRUE)
\* and a public key push print as hex; shortened here
LockToken == <<2, 1, 0, 3, 10, 11, 10, 13, 7, 5, 5, 1>>

PubKeyToken == <<2, 1, 0, 3, 10, 11>>

\* the input fund() adds from the wallet: signature and public key
FundAsm == <<SigToken, PubKeyToken>>

\* the asm of the inputs of every transaction inscribe returns: the first
\* transaction only funds the first P2SH output; transaction j + 1 spends
\* the output of transaction j with partial j, the signature and the lock
inscribeTxs(contentType, data) ==
  LET ps == partialsOf(inscriptionChunks(contentType, data), TRUE)
  IN <<<<FundAsm>>>>
     \o [j \in 1..Len(ps) |-> <<asmOf(ps[j]) \o <<SigToken, LockToken>>, FundAsm>>]

\* /^-?\d+$/
isIntegerString(s) ==
  LET d == IF s # <<>> /\ s[1] = 16 THEN Tail(s) ELSE s
  IN d # <<>> /\ \A x \in 1..Len(d) : d[x] <= 9

RECURSIVE decimalValue(_)
decimalValue(d) ==
  IF d = <<>> THEN 0 ELSE 10 * decimalValue(SubSeq(d, 1, Len(d) - 1)) + d[Len(d)]

\* parseInt(token.replace(/^-/, ""), 10)
parseIntAbs(s) == decimalValue(IF s[1] = 16 THEN Tail(s) ELSE s)

\* Buffer.from(hexString, "hex"): whole pairs of hex digits up to the first
\* character that is none
bufferFromHex(s) ==
  LET bad == {x \in 1..Len(s) : s[x] > 15}
      stop == IF bad = {} THEN Len(s) + 1
              ELSE CHOOSE x \in bad : \A y \in bad : x <= y
      k == (stop - 1) \div 2
  IN [x \in 1..k |-> 16 * s[2 * x - 1] + s[2 * x]]

\* hexToAscii(mimeTypeHex) || "application/octet-stream", as bytes
mimeOfHex(mimeTypeHex) ==
  IF bufferFromHex(mimeTypeHex) = <<>> THEN OctetStreamBytes
  ELSE bufferFromHex(mimeTypeHex)

\* a loop that reads on past a pair with 0
RECURSIVE tokenPairsPastZero(_, _, _, _)
tokenPairsPastZero(asmData, index, dataHex, chunksFound) ==
  LET open == [dataHex |-> dataHex, endOfData |-> FALSE, chunksFound |-> chunksFound]
  IN IF index > Len(asmData) THEN open
     ELSE IF ~isIntegerString(asmData[index]) THEN open
     ELSE IF index + 1 > Len(asmData) THEN open
     ELSE tokenPairsPastZero(asmData, index + 2, dataHex \o asmData[index + 1],
                             chunksFound + 1)

\* the loop over (integer, hex) token pairs shared by processGenesisAsm and
\* processSubsequentAsm, from token index on
RECURSIVE tokenPairs(_, _, _, _)
tokenPairs(asmData, index, dataHex, chunksFound) ==
  LET open == [dataHex |-> dataHex, endOfData |-> FALSE, chunksFound |-> chunksFound]
  IN IF index > Len(asmData) THEN open
     ELSE IF ~isIntegerString(asmData[index]) THEN open
     ELSE IF index + 1 > Len(asmData) THEN open
     ELSE IF parseIntAbs(asmData[index]) = 0
          THEN [dataHex |-> dataHex \o asmData[index + 1], endOfData |-> TRUE,
                chunksFound |-> chunksFound + 1]
          ELSE tokenPairs(asmData, index + 2, dataHex \o asmData[index + 1],
                          chunksFound + 1)

\* asmData.length >= 3 is checked by the caller below
processGenesisAsm(asmData) ==
  LET r == tokenPairs(asmData, 4, <<>>, 0)
  IN [dataHex |-> r.dataHex, mimeType |-> mimeOfHex(asmData[3]),
      endOfData |-> r.endOfData, chunksFound |-> r.chunksFound]

processSubsequentAsm(asmData) == tokenPairs(asmData, 1, <<>>, 0)

\* '6582895'
Sentinel == <<6, 5, 8, 2, 8, 9, 5>>

NoMime == <<>>

\* the loop over rawTx.vin of one hop, from input x on
RECURSIVE overInputs(_, _, _)
overInputs(vin, x, w) ==
  IF x > Len(vin) \/ w.pc = "failed" THEN w
  ELSE LET asmData == vin[x]
           g == processGenesisAsm(asmData)
           s == processSubsequentAsm(asmData)
       IN IF w.isGenesis
          THEN IF asmData[1] = Sentinel
               THEN IF Len(asmData) < 3
                    THEN [w EXCEPT !.pc = "failed", !.stop = "error"]
                    ELSE overInputs(vin, x + 1,
                           [w EXCEPT !.dataHex = @ \o g.dataHex,
                                     !.mimeType = g.mimeType,
                                     !.endOfData = g.endOfData,
                                     !.isGenesis = FALSE,
                                     !.chunks = @ + g.chunksFound,
                                     !.genesisAt = w.txid])
               ELSE overInputs(vin, x + 1, w)
          ELSE overInputs(vin, x + 1,
                 [w EXCEPT !.dataHex = @ \o s.dataHex,
                           !.endOfData = @ \/ s.endOfData,
                           !.chunks = @ + s.chunksFound])

\* findNextOrdinalTx(txid, 0) on a chain that is mined in full: the
\* transaction whose input spends output 0 of txid, 0 when there is none
findNextOrdinalTx(txs, txid) == IF txid < Len(txs) THEN txid + 1 ELSE 0

\* the locals of decodeDoginalsChain; and about the walk: the transaction
\* it was started at, its maxHops option, how many transactions of the chain
\* are mined, the transaction taken as the genesis hop, the chunks collected,
\* why the loop was left, and the hex returned
WalkOff ==
  [pc |-> "off", txid |-> 0, dataHex |-> <<>>, mimeType |-> NoMime,
   isGenesis |-> TRUE, endOfData |-> FALSE, hop |-> 0,
   start |-> 0, maxHops |-> 0, mined |-> 0, genesisAt |-> 0, chunks |-> 0,
   stop |-> "", returned |-> <<>>]

NoInput == [contentType |-> <<>>, data |-> <<>>]

NoOutput == [mimeType |-> NoMime, bytes |-> <<>>]

TripIdle ==
  /\ tripIn = NoInput
  /\ tripTxs = <<>>
  /\ walk = WalkOff
  /\ tripOut = NoOutput

\* mint: inscribe builds the chain, broadcastAll reports txs[1] as the
\* inscription txid, and the walk starts there
TripInscribe ==
  /\ walk.pc = "off"
  /\ tripTxs = <<>>
  /\ LET txs == inscribeTxs(tripIn.contentType, tripIn.data)
     IN /\ tripTxs' = txs
        /\ walk' = [WalkOff EXCEPT !.pc = "walking",
                      !.txid = IF Len(txs) > 1 THEN 2 ELSE 1,
                      !.start = IF Len(txs) > 1 THEN 2 ELSE 1,
                      !.maxHops = 20000, !.mined = Len(txs)]
  /\ UNCHANGED <<tripIn, tripOut, mintVars, decoderVars, restVars>>

\* one turn of the while loop of decodeDoginalsChain
TripWalkHop ==
  /\ walk.pc = "walking"
  /\ LET w == overInputs(tripTxs[walk.txid], 1, [walk EXCEPT !.hop = @ + 1])
         next == findNextOrdinalTx(tripTxs, walk.txid)
         left == IF w.pc = "failed" THEN w
                 ELSE IF w.endOfData \/ next = 0
                 THEN [w EXCEPT !.pc = IF w.dataHex = <<>> THEN "failed" ELSE "walked",
                                !.mimeType = IF w.mimeType = NoMime
                                             THEN OctetStreamBytes ELSE w.mimeType]
                 ELSE [w EXCEPT !.txid = next]
     IN walk' = left
  /\ UNCHANGED <<tripIn, tripTxs, tripOut, mintVars, decoderVars, restVars>>

\* reconstructAndReturnBuffer after the walk: the padding of an odd hex
\* length and the conversion to bytes
TripReconstruct ==
  /\ walk.pc = "walked"
  /\ LET dataHex == IF Len(walk.dataHex) % 2 # 0
                    THEN walk.dataHex \o <<0, 0, 0, 0, 0>> ELSE walk.dataHex
     IN tripOut' = [mimeType |-> walk.mimeType, bytes |-> bufferFromHex(dataHex)]
  /\ walk' = [walk EXCEPT !.pc = "done"]
  /\ UNCHANGED <<tripIn, tripTxs, mintVars, decoderVars, restVars>>

\* decodeDoginalsChain is asked for transaction start of a chain that
\* inscribe built, of which the first mined transactions are in blocks and
\* the others in the mempool
WalkStart(start, maxHops, mined) ==
  /\ walk.pc = "off"
  /\ tripTxs = <<>>
  /\ LET txs == inscribeTxs(tripIn.contentType, tripIn.data)
     IN /\ start <= Len(txs)
        /\ mined <= Len(txs)
        /\ tripTxs' = txs
        /\ walk' = [WalkOff EXCEPT !.pc = "walking", !.txid = start,
                      !.start = start, !.maxHops = maxHops, !.mined = mined]
  /\ UNCHANGED <<tripIn, tripOut, mintVars, decoderVars, restVars>>

\* what findNextOrdinalTx(txid, 0) can return: null for a transaction without
\* blockhash ("mempool"); the mined spender of its output 0 ("found"); null
\* at the tip ("tip") or when depthBlocks blocks hold no spender ("nohop")
findNextOrdinalTxAny(txs, mined, txid) ==
  IF txid > mined THEN {[next |-> 0, why |-> "mempool"]}
  ELSE {[next |-> 0, why |-> "nohop"]}
       \cup (IF txid + 1 <= mined THEN {[next |-> txid + 1, why |-> "found"]}
             ELSE {[next |-> 0, why |-> "tip"]})

\* nothing collected still counts as a result
afterLoopAlways(w) ==
  [w EXCEPT !.pc = "walked", !.returned = w.dataHex,
            !.mimeType = IF w.mimeType = NoMime THEN OctetStreamBytes ELSE w.mimeType]

\* decodeDoginalsChain after its while loop
afterLoop(w) ==
  IF w.dataHex = <<>> THEN [w EXCEPT !.pc = "failed"]
  ELSE [w EXCEPT !.pc = "walked", !.returned = w.dataHex,
                 !.mimeType = IF w.mimeType = NoMime THEN OctetStreamBytes
                              ELSE w.mimeType]

\* one turn of the while loop of decodeDoginalsChain, up to the loop
\* condition of the next turn
WalkHop ==
  /\ walk.pc = "walking"
  /\ LET w == overInputs(tripTxs[walk.txid], 1, [walk EXCEPT !.hop = @ + 1])
     IN \E f \in findNextOrdinalTxAny(tripTxs, walk.mined, walk.txid) :
          walk' = IF w.pc = "failed" THEN w
                  ELSE IF w.endOfData THEN afterLoop([w EXCEPT !.stop = "end"])
                  ELSE IF f.next = 0 THEN afterLoop([w EXCEPT !.stop = f.why])
                  ELSE IF w.hop >= w.maxHops
                  THEN afterLoop([w EXCEPT !.txid = f.next, !.stop = "maxHops"])
                  ELSE [w EXCEPT !.txid = f.next]
  /\ UNCHANGED <<tripIn, tripTxs, tripOut, mintVars, decoderVars, restVars>>


(***************************************************************************)
(* ============  decode.js: the walker on any answers of the node  ======= *)
(* The transactions are 1..MaxGraphTxs; the walk starts at transaction 1.  *)
(* Every hex chunk names its transaction, input and place, so that the hex *)
(* collected shows where each piece came from.  findNextOrdinalTx answers  *)
(* from a fixed table, which may lead back to a transaction already seen.  *)
(***************************************************************************)
GraphTxids == 1..MaxGraphTxs

hexTag(t, x, k) == <<10 + t, x, k>>

\* an input that opens an inscription: sentinel, count, mime type, one pair
genesisAsm(t, x, remaining) ==
  <<Sentinel, digits(remaining + 1), toHex(TextPlain),
    digits(remaining), hexTag(t, x, 1)>>

\* an input that carries two pairs, the second with the remaining value given
chainAsm(t, x, remaining) ==
  <<digits(remaining + 1), hexTag(t, x, 1), digits(remaining), hexTag(t, x, 2)>>

\* rawTx.vin of transaction t, as the asm of each scriptSig
GraphVins(t) ==
  { <<genesisAsm(t, 1, 1)>>,
    <<chainAsm(t, 1, 1)>>,
    <<FundAsm>>,
    <<genesisAsm(t, 1, 0), chainAsm(t, 2, 1)>>,
    <<chainAsm(t, 1, 1), chainAsm(t, 2, 0)>>,
    <<chainAsm(t, 1, 1), chainAsm(t, 2, 1)>>,
    <<FundAsm, genesisAsm(t, 2, 1)>> }

NoGraph == [vin |-> <<>>, next |-> <<>>]

\* the locals of decodeDoginalsChain; and about the walk: its maxHops
\* option, the transactions processed in the order they were, the turns of
\* the loop taken, the transaction taken as genesis, why the loop was left,
\* and the hex returned; key is the progressKey option when the calls on the
\* progress entry are followed
GraphOff ==
  [pc |-> "off", txid |-> 0, dataHex |-> <<>>, mimeType |-> NoMime,
   isGenesis |-> TRUE, endOfData |-> FALSE, hop |-> 0,
   processedTxids |-> {}, maxHops |-> 0, order |-> <<>>, turns |-> 0,
   genesisAt |-> 0, chunks |-> 0, stop |-> "", returned |-> <<>>,
   key |-> None]

GraphIdle ==
  /\ graph = NoGraph
  /\ gw = GraphOff

\* decodeDoginalsChain(genesisTxid, depthBlocks, {maxHops}) up to its loop,
\* against a node that answers with these inputs and next hops
GraphStart(vin, next, maxHops) ==
  /\ gw.pc = "off"
  /\ graph = NoGraph
  /\ graph' = [vin |-> vin, next |-> next]
  /\ gw' = [GraphOff EXCEPT !.pc = "walking", !.txid = 1, !.maxHops = maxHops]
  /\ UNCHANGED <<walletVars, runVars, race, mintVars, decoderVars, tripVars, pureVars>>

\* a turn that never counts
countHopUnlessSeen(w) ==
  IF w.txid \in w.processedTxids THEN [w EXCEPT !.turns = Min(@ + 1, MaxGraphHops + 1)]
  ELSE [w EXCEPT !.hop = @ + 1, !.turns = Min(@ + 1, MaxGraphHops + 1)]

\* hop++ at the top of every turn of the loop
countHop(w) == [w EXCEPT !.hop = @ + 1, !.turns = Min(@ + 1, MaxGraphHops + 1)]

\* no memory of what was processed
seenNever(w, txid) == FALSE

\* processedTxids.has(txid)
seen(w, txid) == txid \in w.processedTxids

\* the locals after one turn of the while loop, the node answering g
hopOf(w, g) ==
  LET w0 == countHop(w)
      next == g.next[w0.txid]
      w1 == [w0 EXCEPT !.processedTxids = @ \cup {w0.txid},
                       !.order = Append(@, w0.txid)]
      w2 == overInputs(g.vin[w0.txid], 1, w1)
  IN IF seen(w0, w0.txid)
     THEN IF next # 0 THEN [w0 EXCEPT !.txid = next]
          ELSE [w0 EXCEPT !.pc = "left", !.stop = "loop"]
     ELSE IF w2.pc = "failed" THEN w2
     ELSE IF w2.endOfData THEN [w2 EXCEPT !.pc = "left", !.stop = "end"]
     ELSE IF next # 0 THEN [w2 EXCEPT !.txid = next]
     ELSE [w2 EXCEPT !.pc = "left", !.stop = "nohop"]

\* one turn of the while loop of decodeDoginalsChain
GraphHop ==
  /\ gw.pc = "walking"
  /\ ~gw.endOfData
  /\ gw.hop < gw.maxHops
  /\ gw' = hopOf(gw, graph)
  /\ UNCHANGED <<graph, walletVars, runVars, race, mintVars, decoderVars, tripVars, pureVars>>

\* decodeDoginalsChain after its while loop, left by break or by its condition
GraphReturn ==
  /\ \/ gw.pc = "left"
     \/ gw.pc = "walking" /\ (gw.endOfData \/ gw.hop >= gw.maxHops)
  /\ gw' = afterLoop(IF gw.pc = "left" THEN gw ELSE [gw EXCEPT !.stop = "maxHops"])
  /\ UNCHANGED <<graph, walletVars, runVars, race, mintVars, decoderVars, tripVars, pureVars>>


(***************************************************************************)
(* ============  decode.js: the two asm parsers on their own  ============ *)
(* A token is a sequence of hex digits, 16 standing for '-'.               *)
(***************************************************************************)
NoParse == [asmData |-> <<>>, by |-> "none", out |-> <<>>]

NoPack == [pc |-> "off", contentType |-> <<>>, chunks |-> <<>>, partials |-> <<>>]

\* the locals of the wave loop that decide the counts: mode, requested count,
\* count done, where the loop is, the wave running and the count it was
\* spawned with, where a successful sync continues, and the cancelled flag
WavesOff ==
  [mode |-> None, pc |-> "off", jobs |-> <<0>>, job |-> 1, jobDone |-> 0,
   kind |-> None, count |-> 0, next |-> None, cancelled |-> FALSE]

PureIdle == parse = NoParse /\ pack = NoPack /\ waves = WavesOff

\* processGenesisAsm(asmData) on a list of at least three tokens
ParseGenesis ==
  /\ parse.by = "none"
  /\ Len(parse.asmData) >= 3
  /\ parse' = [parse EXCEPT !.by = "genesis", !.out = processGenesisAsm(parse.asmData)]
  /\ UNCHANGED <<pack, waves, mintVars, decoderVars, tripVars, walletVars, runVars, race,
                 graphVars>>

\* processSubsequentAsm(asmData)
ParseSubsequent ==
  /\ parse.by = "none"
  /\ parse' = [parse EXCEPT !.by = "subsequent",
                            !.out = processSubsequentAsm(parse.asmData)]
  /\ UNCHANGED <<pack, waves, mintVars, decoderVars, tripVars, walletVars, runVars, race,
                 graphVars>>

(***************************************************************************)
(* ============  doginals.js: the packing loop of inscribe  ============== *)
(***************************************************************************)
\* inscribe up to its packing loop: the inscription script is built
PackStart(contentType, data) ==
  /\ pack.pc = "off"
  /\ pack' = [pc |-> "packing", contentType |-> contentType,
              chunks |-> inscriptionChunks(contentType, data), partials |-> <<>>]
  /\ UNCHANGED <<parse, waves, mintVars, decoderVars, tripVars, walletVars, runVars, race,
                 graphVars>>

\* one turn of while (inscription.chunks.length)
PackTurn ==
  /\ pack.pc = "packing"
  /\ pack.chunks # <<>>
  /\ LET p == nextPartial(pack.chunks, pack.partials = <<>>)
     IN pack' = [pack EXCEPT !.chunks = p.rest, !.partials = Append(@, p.partial)]
  /\ UNCHANGED <<parse, waves, mintVars, decoderVars, tripVars, walletVars, runVars, race,
                 graphVars>>

\* the loop is left
PackEnd ==
  /\ pack.pc = "packing"
  /\ pack.chunks = <<>>
  /\ pack' = [pack EXCEPT !.pc = "done"]
  /\ UNCHANGED <<parse, waves, mintVars, decoderVars, tripVars, walletVars, runVars, race,
                 graphVars>>

(***************************************************************************)
(* ======  server.js: the wave loop of the streaming controllers  ======== *)
(* The child process is left out: a wave ends with any number of txids up  *)
(* to its count and any of the three results, a sync with a wallet or      *)
(* without.  The confirmation wait and the retries of the sync are folded  *)
(* into the sync step.                                                     *)
(***************************************************************************)
WaveOther == <<parse, pack, mintVars, decoderVars, tripVars, walletVars, runVars,
               race, graphVars>>

\* the stream is opened: the first syncWalletWithRetry, then the loop
WaveStart(mode, total) ==
  /\ waves.pc = "off"
  /\ waves' = [WavesOff EXCEPT !.mode = mode, !.jobs = <<total>>,
                               !.pc = "sync", !.next = "loop"]
  /\ UNCHANGED WaveOther

\* req.on('close')
WaveCancel ==
  /\ waves.pc \notin {"off", "done", "error"}
  /\ ~waves.cancelled
  /\ waves' = [waves EXCEPT !.cancelled = TRUE]
  /\ UNCHANGED WaveOther

\* syncWalletWithRetry returns a wallet or null
WaveSync(ok) ==
  /\ waves.pc = "sync"
  /\ waves' = IF ok /\ ~waves.cancelled THEN [waves EXCEPT !.pc = waves.next]
              ELSE [waves EXCEPT !.pc = "error"]
  /\ UNCHANGED WaveOther

\* while (!cancelled && completed < total): the main wave is spawned
WaveLoop ==
  /\ waves.pc = "loop"
  /\ waves' = IF waves.cancelled \/ waves.jobDone >= waves.jobs[waves.job]
              THEN [waves EXCEPT !.pc = "done"]
              ELSE [waves EXCEPT !.pc = "wave", !.kind = "main",
                                 !.count = waveCount(waves)]
  /\ UNCHANGED WaveOther

\* the test wave after a chain-limit exit and a sync
WaveTest ==
  /\ waves.pc = "test"
  /\ waves' = [waves EXCEPT !.pc = "wave", !.kind = "test",
                            !.count = waveCount(waves)]
  /\ UNCHANGED WaveOther

\* the child of a wave closed with minted txids and result r
WaveClosed(minted, r) ==
  /\ waves.pc = "wave"
  /\ minted <= waves.count
  /\ LET c1 == [waves EXCEPT !.jobDone = @ + minted]
     IN waves' =
          IF waves.mode = "single" /\ waves.cancelled THEN [waves EXCEPT !.pc = "done"]
          ELSE IF r = "ok"
          THEN IF waves.mode = "single"
               THEN [c1 EXCEPT !.pc = "sync", !.next = "loop"]
               ELSE [c1 EXCEPT !.pc = "loop"]
          ELSE IF r = "hard" THEN [c1 EXCEPT !.pc = "error"]
          ELSE IF waves.kind = "main"
          THEN IF c1.jobDone >= c1.jobs[c1.job] THEN [c1 EXCEPT !.pc = "done"]
               ELSE [c1 EXCEPT !.pc = "sync", !.next = "test"]
          ELSE [c1 EXCEPT !.pc = "sync", !.next = "loop"]
  /\ UNCHANGED WaveOther

(***************************************************************************)
(* ==================  doginals.js: the wallet file  ===================== *)
(* A utxo is named by (txid, vout); amounts are not tracked: how many      *)
(* utxos fund() takes and whether change comes back are left open.         *)
(***************************************************************************)
Utxo(txid, vout) == [txid |-> txid, vout |-> vout]

\* a built transaction: its hash, the wallet utxos it spends, and the
\* indices of its outputs that pay the wallet address
WalletTx(hash, inputs, outs) == [hash |-> hash, inputs |-> inputs, outs |-> outs]

\* fund(wallet, tx): utxos are taken from the front of the list until the
\* amount suffices
fund(utxos, take) == {utxos[i] : i \in 1..take}

unspentBy(tx, utxo) == utxo \notin tx.inputs

\* updateWallet(wallet, tx): drop the utxos tx spends, then push every
\* output of tx that pays the wallet address
updateWallet(utxos, tx) ==
  SelectSeq(utxos, LAMBDA utxo : unspentBy(tx, utxo))
    \o [i \in 1..Len(tx.outs) |-> Utxo(tx.hash, tx.outs[i])]

\* every outcome of inscribe's loop from transaction n of chain c on: each
\* transaction is funded, then updateWallet(wallet, tx) rewrites the file;
\* fund() throwing 'not enough funds' leaves the file as last written.
\* Output 0 is the P2SH output, or on the last transaction the payment to
\* the destination address (toSelf: the wallet's own); output 1 is change.
RECURSIVE inscribeWallet(_, _, _, _, _)
inscribeWallet(utxos, c, n, len, toSelf) ==
  IF n > len THEN {[utxos |-> utxos, txs |-> <<>>, ok |-> TRUE]}
  ELSE {[utxos |-> utxos, txs |-> <<>>, ok |-> FALSE]}
       \cup UNION {
         LET tx == WalletTx(Tx(c, n), fund(utxos, take),
                            (IF n = len /\ toSelf THEN <<0>> ELSE <<>>)
                              \o (IF change THEN <<1>> ELSE <<>>))
         IN {[utxos |-> r.utxos, txs |-> <<tx>> \o r.txs, ok |-> r.ok] :
               r \in inscribeWallet(updateWallet(utxos, tx), c, n + 1, len,
                                    toSelf)}
         : take \in 1..Len(utxos), change \in BOOLEAN}

\* mint: inscribe(wallet, address, contentType, data), then broadcastAll
WalletInscribe(len, toSelf) ==
  /\ walletAt = 0
  /\ walletChains < MaxWalletChains
  /\ \E o \in inscribeWallet(walletUtxos, walletChains + 1, 1, len, toSelf) :
       /\ walletUtxos' = o.utxos
       /\ walletTxs' = IF o.ok THEN o.txs ELSE <<>>
       /\ walletAt' = IF o.ok THEN 1 ELSE 0
  /\ walletChains' = walletChains + 1
  /\ UNCHANGED <<mintVars, decoderVars, tripVars, runVars, race, graphVars, pureVars>>

\* one turn of broadcastAll's loop: broadcast(tx) re-reads the wallet file
\* and calls updateWallet(wallet, tx) when the node took the transaction;
\* 'inputs spent' skips to the next one, any other error ends the process
WalletBroadcast(r) ==
  /\ walletAt > 0
  /\ r \in {"ok", "spent", "other"}
  /\ walletUtxos' = IF r = "ok" THEN updateWallet(walletUtxos, walletTxs[walletAt])
                    ELSE walletUtxos
  /\ IF r = "other" \/ walletAt = Len(walletTxs)
     THEN walletAt' = 0 /\ walletTxs' = <<>>
     ELSE walletAt' = walletAt + 1 /\ UNCHANGED walletTxs
  /\ UNCHANGED <<walletChains, mintVars, decoderVars, tripVars, runVars, race, graphVars, pureVars>>

(***************************************************************************)
(* ====  decode.js: ensureInscriptionDecoded calls in flight together  ==== *)
(* A call runs without interruption from one await to the next: from its   *)
(* start to the chain walk, from the end of the walk to the return of      *)
(* reconstructAndReturnBuffer, and from there to its own return.           *)
(***************************************************************************)
\* a call: the id it was given, where it is, the isModelViewerSrc it
\* computed before the walk, whether it walked, and what
\* reconstructAndReturnBuffer handed it
RaceCall(id, pc, mv, walked) ==
  [id |-> id, pc |-> pc, mv |-> mv, walked |-> walked, mimeType |-> "",
   buf |-> NoBuf]

\* a call starts: it answers from the store at once, or goes into the walk
RaceStart(rawId) ==
  /\ Len(race) < 2
  /\ \E o \in ensureInscriptionDecoded(files, master, modelViewerSrcSet, rawId) :
       IF o.res.rpc
       THEN /\ race' = Append(race, RaceCall(rawId, "walk",
                                normalizedId(rawId) \in modelViewerSrcSet, TRUE))
            /\ progressMap' = startProgress(progressMap, normalizedId(rawId).txid)
            /\ UNCHANGED <<files, master>>
       ELSE /\ race' = Append(race, RaceCall(rawId, "done", FALSE, FALSE))
            /\ files' = o.files
            /\ master' = o.master
            /\ UNCHANGED progressMap
  /\ UNCHANGED <<modelViewerSrcSet, chain, req, last, first, lost, now, upserts,
                 mintVars, tripVars, walletVars, runVars, graphVars, pureVars>>

\* the walk of call i is over: reconstructAndReturnBuffer writes the file
\* and the master entry, or the walk found no data and the call throws
RaceWrite(i) ==
  /\ i \in DOMAIN race
  /\ race[i].pc = "walk"
  /\ LET baseTxid == normalizedId(race[i].id).txid
         r == reconstructAndReturnBuffer(files, master, baseTxid, race[i].mv)
     IN /\ progressMap' = decodeProgress(progressMap, baseTxid, baseTxid)
        /\ IF ~decodeDoginalsChain(baseTxid).data
           THEN /\ race' = [race EXCEPT ![i].pc = "done"]
                /\ UNCHANGED <<files, master>>
           ELSE /\ race' = [race EXCEPT ![i].pc = "save",
                                        ![i].mimeType = r.mimeType,
                                        ![i].buf = r.resultBuf]
                /\ files' = r.files
                /\ master' = r.master
  /\ UNCHANGED <<modelViewerSrcSet, chain, req, last, first, lost, now, upserts,
                 mintVars, tripVars, walletVars, runVars, graphVars, pureVars>>

\* call i is back in ensureInscriptionDecoded: the special save of a
\* model-viewer source of weak type, then the return
RaceSave(i) ==
  /\ i \in DOMAIN race
  /\ race[i].pc = "save"
  /\ LET inscriptionId == Id(normalizedId(race[i].id).txid, 0)
         mt == normalizeMimeType(race[i].mimeType)
         s == saveModelViewerNoExtThenGlb(files, master, inscriptionId,
                                          inscriptionId.txid, race[i].buf)
     IN IF race[i].mv /\ isWeakExtOrMime(mimeExtension(mt), mt)
        THEN files' = s.files /\ master' = s.master
        ELSE UNCHANGED <<files, master>>
  /\ race' = [race EXCEPT ![i].pc = "done"]
  /\ UNCHANGED <<modelViewerSrcSet, chain, req, last, first, progressMap, lost,
                 now, upserts, mintVars, tripVars, walletVars, runVars, graphVars, pureVars>>

(***************************************************************************)
(* ==========  server.js: the run record of /api/doginals/mint-stream  === *)
(***************************************************************************)
\* runState as the handler creates it
FreshRunState ==
  [status |-> "running", finishedAt |-> Null, totalFiles |-> 0,
   completed |-> 0, results |-> <<>>, error |-> FALSE]

NoFile == [status |-> None]

\* the completed field is written as it stands
persistRunStateAsIs(state) == state

\* persistRunState: completed is taken from results before the write
persistRunState(state) == [state EXCEPT !.completed = Len(state.results)]

\* atomicWriteJson(outPath, state): the file is replaced, or the write
\* throws and the file stays as it was
atomicWriteJson(file, state) == {state, file}

\* the handler starts: runState is created and written for the first time
RunCreate ==
  /\ runAt = "off"
  /\ runState' = FreshRunState
  /\ runFile' \in atomicWriteJson(runFile, FreshRunState)
  /\ runAt' = "start"
  /\ UNCHANGED <<mintVars, decoderVars, tripVars, walletVars, race, graphVars, pureVars>>

\* the folder is listed, the wallet synced, the start balance recorded
RunList(totalFiles) ==
  /\ runAt = "start"
  /\ LET state == persistRunState([runState EXCEPT !.totalFiles = totalFiles])
     IN /\ runState' = state
        /\ runFile' \in atomicWriteJson(runFile, state)
  /\ runAt' = "files"
  /\ UNCHANGED <<mintVars, decoderVars, tripVars, walletVars, race, graphVars, pureVars>>

\* one file minted, on the normal path or after mempool recovery
RunMinted(mode) ==
  /\ runAt = "files"
  /\ Len(runState.results) < runState.totalFiles
  /\ LET state == persistRunState([runState EXCEPT !.results = Append(@, mode)])
     IN /\ runState' = state
        /\ runFile' \in atomicWriteJson(runFile, state)
  /\ UNCHANGED <<runAt, mintVars, decoderVars, tripVars, walletVars, race, graphVars, pureVars>>

\* past the loop: end balance, status done
RunDone ==
  /\ runAt = "files"
  /\ Len(runState.results) = runState.totalFiles
  /\ LET state == persistRunState([runState EXCEPT !.status = "done",
                                                   !.finishedAt = 1])
     IN /\ runState' = state
        /\ runFile' \in atomicWriteJson(runFile, state)
  /\ runAt' = "log"
  /\ UNCHANGED <<mintVars, decoderVars, tripVars, walletVars, race, graphVars, pureVars>>

\* the wallet log and the done event went out
RunEnd ==
  /\ runAt = "log"
  /\ runAt' = "end"
  /\ UNCHANGED <<runState, runFile, mintVars, decoderVars, tripVars,
                 walletVars, race, graphVars, pureVars>>

\* something inside the try block threw: listing the folder, a mint, the
\* recovery, or the wallet log and the done event after status done
RunCatch ==
  /\ runAt \in {"start", "files", "log"}
  /\ LET state == persistRunState(
                    [runState EXCEPT !.status = "error",
                                     !.finishedAt = IF @ = Null THEN 1 ELSE @ + 1,
                                     !.error = TRUE])
     IN /\ runState' = state
        /\ runFile' \in atomicWriteJson(runFile, state)
  /\ runAt' = "end"
  /\ UNCHANGED <<mintVars, decoderVars, tripVars, walletVars, race, graphVars, pureVars>>

RunIdle ==
  /\ runState = FreshRunState
  /\ runFile = NoFile
  /\ runAt = "off"

WalletIdle ==
  /\ walletUtxos = <<>>
  /\ walletTxs = <<>>
  /\ walletAt = 0
  /\ walletChains = 0

RestIdle == WalletIdle /\ RunIdle /\ race = <<>> /\ GraphIdle /\ PureIdle

(***************************************************************************)
(* =========================  SPECIFICATIONS: mint  ====================== *)
(***************************************************************************)
\* doginals.js driven from the command line
BcastInit ==
  /\ MintInit({CtlOff})
  /\ RestIdle
  /\ DecoderIdle
  /\ chain = [t \in Txids |-> NoData]
  /\ TripIdle

BcastNext == CliRun \/ CliReap \/ BroadcastStep \/ SendStep

SpecBcast == BcastInit /\ [][BcastNext]_vars

\* the user re-runs the command after a stream ended and left a journal
\* ('to reattempt broadcast, re-run the command')
CliResume ==
  /\ pending # <<>>
  /\ \E cmd \in {"drc20mint", "walletsync"} : CliStart(cmd, 1)

\* doginals.js driven by a streaming controller of server.js
CtlInit ==
  /\ MintInit(CtlInits \ {CtlOff})
  /\ RestIdle
  /\ DecoderIdle
  /\ chain = [t \in Txids |-> NoData]
  /\ TripIdle

CtlNext == BroadcastStep \/ CtlStep \/ CliResume \/ CliReap

SpecCtl == CtlInit /\ [][CtlNext]_vars

\* sendrawtransaction answered with acceptance (or 'already spent / mined')
BroadcastAccept ==
  /\ broadcastStep("ok") \/ broadcastStep("spent")
  /\ UNCHANGED <<ctl, decoderVars, tripVars, restVars>>

\* the controller's own steps, with a confirmation poll that succeeds
CtlProgress ==
  \/ CtlSyncSpawn \/ CtlSyncDone \/ CtlLoop \/ CtlSpawnTest \/ CtlWaveDone
  \/ CtlDeletePending \/ CtlPoll("confirmed") \/ CtlSleepDone

\* The event loop runs every ready continuation, a child that was started
\* gets its answers, the node eventually accepts what is sent to it again and
\* again, and a journal left behind is eventually resumed.
FairSpecCtl ==
  /\ SpecCtl
  /\ WF_mintVars(CtlProgress)
  /\ WF_mintVars(BroadcastStep)
  /\ SF_mintVars(BroadcastAccept)
  /\ WF_mintVars(CliResume)
  /\ WF_mintVars(CliReap)

(***************************************************************************)
(* ====================  PROPERTIES: mint side  ========================== *)
(***************************************************************************)

accepted(n) == st[n] \in {"ok", "spent"}

\* C5: a transaction of a built chain is submitted only after every earlier
\* transaction of the chain was accepted or treated as accepted (also across
\* a resume from the journal), so the final transaction is submitted last;
\* within one process the submissions go up the chain.
C5_BroadcastInOrder ==
  /\ \A n \in 1..chainLen :
       st[n] # "unsent" => \A j \in 1..(n - 1) : accepted(j)
  /\ \A x, y \in DOMAIN proc.sent :
       (x < y /\ proc.sent[x].c = proc.sent[y].c) => proc.sent[x].n < proc.sent[y].n

\* a resumed process has submitted the final transaction of a 3-chain whose
\* earlier transactions were accepted, one of them as 'already spent'
C5_Witness ==
  /\ chainLen = 3 /\ proc.resume /\ st[3] = "ok"
  /\ \E j \in 1..2 : st[j] = "spent"

\* C6: when the broadcast of txs[i] fails with another error, the journal
\* holds exactly txs[i..] in the original order and the process exits with
\* code 1.
C6_JournalIsRest ==
  (proc.pc = "exit" /\ proc.failed) =>
     /\ proc.code = 1
     /\ Len(pending) = Len(proc.txs) - proc.i + 1
     /\ \A x \in 1..Len(pending) : pending[x] = proc.txs[proc.i + x - 1]

\* the second of three transactions failed
C6_Witness ==
  /\ proc.pc = "exit" /\ proc.failed /\ proc.i = 2 /\ Len(proc.txs) = 3
  /\ Len(pending) = 2

IsPrefix(a, b) == Len(a) <= Len(b) /\ \A x \in 1..Len(a) : a[x] = b[x]

\* C7: a process that finds a journal at start submits the journal's
\* transactions in the journal's order (all of them when it ends normally)
\* and dispatches to no command, whatever the command line asked for.
C7_ResumeOnly ==
  proc.resume =>
     /\ proc.ran = None
     /\ IsPrefix(proc.sent, proc.journal0)
     /\ (proc.pc = "exit" /\ proc.code = 0) => proc.sent = proc.journal0

\* a 'mint' command line that only rebroadcast a two-transaction journal
C7_Witness ==
  /\ proc.resume /\ proc.cmd = "mint" /\ proc.pc = "exit" /\ proc.code = 0
  /\ Len(proc.journal0) = 2 /\ proc.sent = proc.journal0

\* C9: at every normal return of broadcastAll no journal file exists.
C9_NoJournalAfterReturn == proc.returned => pending = <<>>

\* a resume from a journal returned normally
C9_Witness == proc.returned /\ proc.resume /\ Len(proc.journal0) > 0

C4_RecoveryBeforeNextWave ==
  (ctl.pc = "wave" /\ ctl.kind = "main" /\ ctl.owed.due) =>
     (ctl.owed.del /\ ctl.owed.sync /\ ctl.owed.ok)

\* every transaction of the latest chain is with the node or was treated as
\* accepted by the broadcaster
allDelivered == \A n \in 1..chainLen : accepted(n) \/ n \in nodeAcc

StoreKinds == {k \in ChainKinds : Len(k.refs) <= 1}

\* the two txids are alike: a node that holds (k1, k2) for them behaves as
\* one that holds (k2, k1) with the references renamed, so one of each such
\* pair is enough
swapTx(t) == IF t = "ta" THEN "tb" ELSE "ta"

swapKind(k) == [k EXCEPT !.refs = [i \in DOMAIN k.refs |-> swapTx(k.refs[i])]]

RECURSIVE kindSeq(_)
kindSeq(S) ==
  IF S = {} THEN <<>>
  ELSE LET k == CHOOSE x \in S : TRUE IN <<k>> \o kindSeq(S \ {k})

kindRank(k) ==
  CHOOSE i \in 1..Cardinality(ChainKinds) : kindSeq(ChainKinds)[i] = k

pairRank(k1, k2) == kindRank(k1) * (Cardinality(ChainKinds) + 1) + kindRank(k2)

oneOfEachPair(c) ==
  pairRank(c["ta"], c["tb"]) <= pairRank(swapKind(c["tb"]), swapKind(c["ta"]))

StoreInit ==
  /\ MintInit({CtlOff})
  /\ RestIdle
  /\ TripIdle
  /\ DecoderIdle
  /\ chain \in {c \in [Txids -> StoreKinds] : oneOfEachPair(c)}

StoreNext == RequestStep \/ DependencyStep

SpecStore == StoreInit /\ [][StoreNext]_vars

(***************************************************************************)
(* ====================  PROPERTIES: content store  ====================== *)
(***************************************************************************)
\* C1: for every accepted id form (<txid>, <txid>i0, <txid>iN), a second
\* ensureInscriptionDecoded(id) after a successful first one answers from
\* the cache, walks no chain, and returns the inscriptionId the first call
\* returned.
C1_SecondCallSameIdentity ==
  (last.ok /\ last.again) =>
     /\ last.fromCache
     /\ ~last.rpc
     /\ last.inscriptionId = last.firstId

\* C2: every master entry names a file that exists under content/ and whose
\* byte size equals the entry's size field.
C2_MasterNamesExistingFile ==
  \A k \in DOMAIN master :
     /\ master[k].filename \in DOMAIN files
     /\ files[master[k].filename].size = master[k].size

\* a model-viewer source saved as .glb next to its first .bin file, and an
\* id <txid>iN registered on the same store
C2_Witness ==
  \E k \in DOMAIN master :
     /\ master[k].filename = FileName(k, "glb")
     /\ FileName(k, "bin") \in DOMAIN files
     /\ files[FileName(k, "bin")].size = files[FileName(k, "glb")].size
     /\ \E a \in DOMAIN master : a.n > 0 /\ a.txid = k.txid

TripInit ==
  /\ MintInit({CtlOff})
  /\ RestIdle
  /\ DecoderIdle
  /\ chain = [t \in Txids |-> NoData]
  /\ tripTxs = <<>>
  /\ walk = WalkOff
  /\ tripOut = NoOutput
  /\ tripIn \in {[contentType |-> c, data |-> payloadOf(f, n)] :
                   c \in ContentTypes, f \in ByteFills, n \in TripLengths}

TripNext == TripInscribe \/ TripWalkHop \/ TripReconstruct

SpecTrip == TripInit /\ [][TripNext]_vars

(***************************************************************************)
(* ====================  PROPERTIES: envelope round trip  ================ *)
(***************************************************************************)
\* C3: bytes B inscribed by inscribe and decoded again by the chain walker
\* from the reported inscription txid come back as exactly B with the
\* inscribed content type; only an odd hex length may add padding bytes.
C3_RoundTrip ==
  /\ walk.pc # "failed"
  /\ walk.pc = "done" =>
       /\ tripOut.mimeType = tripIn.contentType
       /\ \/ tripOut.bytes = tripIn.data
          \/ /\ Len(walk.dataHex) % 2 # 0
             /\ bufferFromHex(walk.dataHex) = tripIn.data

(***************************************************************************)
(* The progress entries under any sequence of calls                        *)
(***************************************************************************)
ProgressInit ==
  /\ MintInit({CtlOff})
  /\ RestIdle
  /\ TripIdle
  /\ DecoderIdle
  /\ chain = [t \in Txids |-> NoData]

ProgressNext ==
  \E key \in ProgressKeys :
    \/ ProgressStart(key)
    \/ \E label \in {"genesis", "chain"}, step \in 0..MaxProgress,
          reported \in {Null} \cup 0..MaxProgress :
         ProgressUpdate(key, label, step, reported)
    \/ \E totalDeps \in 0..MaxProgress : ProgressPlan(key, totalDeps)
    \/ ProgressIncrement(key)
    \/ ProgressComplete(key)

SpecProgress == ProgressInit /\ [][ProgressNext]_vars

\* C11: for each progress key, chunksFound never decreases and estimatedTotal
\* never decreases (it is null only before its first value), whatever
\* sequence of updateProgress, setDependencyPlan, incrementDependencyDone and
\* completeProgress calls is made, decodes that share the key included.
C11_CountsNeverDecrease ==
  [][\A key \in DOMAIN progressMap :
       /\ key \in DOMAIN progressMap'
       /\ progressMap'[key].chunksFound >= progressMap[key].chunksFound
       /\ progressMap'[key].estimatedTotal >= progressMap[key].estimatedTotal
       /\ progressMap[key].estimatedTotal # Null
            => progressMap'[key].estimatedTotal # Null]_vars

\* an entry that a second decode on the same key has raised after the first
\* one completed, with dependencies counted in between
C11_Witness ==
  \E key \in DOMAIN progressMap :
    /\ progressMap[key].chunksFound = MaxProgress
    /\ progressMap[key].estimatedTotal > MaxProgress
    /\ progressMap[key].label = "chain"
    /\ progressMap[key].depDone > 0
    /\ ~progressMap[key].active


(***************************************************************************)
(* Progress entries and the dependency resolver within one request         *)
(***************************************************************************)
\* nothing, an image, or html with any list of references
ResolveKinds ==
  {k \in ChainKinds : k.mime \in {"", "image/png", "text/html;charset=utf-8"}
                      /\ k.hexLen \in {0, 16}}

ResolveInit ==
  /\ MintInit({CtlOff})
  /\ RestIdle
  /\ TripIdle
  /\ DecoderIdle
  /\ chain \in [Txids -> ResolveKinds]

\* requests name the inscription by its txid
ResolveNext ==
  \/ \E t \in Txids : RequestInscription(Id(t, -1))
  \/ DependencyStep

SpecResolve == ResolveInit /\ [][ResolveNext]_vars

\* C12: once the progress entry of a request has active = false, no later
\* operation of the same request changes any of its fields, the decoding of
\* dependencies under the parent's progress key included.
C12_InactiveEntryFrozen ==
  [][(/\ req.pc = "deps"
      /\ req.key \in DOMAIN progressMap
      /\ ~progressMap[req.key].active)
     => progressMap'[req.key] = progressMap[req.key]]_vars

\* C13: within a request, depDone of its progress key never decreases while
\* the entry is active, whatever the dependency graph.
C13_DepDoneNeverDecreases ==
  [][(/\ req.pc = "deps"
      /\ req.key \in DOMAIN progressMap
      /\ progressMap[req.key].active)
     => progressMap'[req.key].depDone >= progressMap[req.key].depDone]_vars

\* the references the payloads of the txids in S hold
RECURSIVE referenceCount(_)
referenceCount(S) ==
  IF S = {} THEN 0
  ELSE LET t == CHOOSE x \in S : TRUE
       IN Len(chain[t].refs) + referenceCount(S \ {t})

\* C14: handleHtmlSvgDependencies terminates on every finite reference graph,
\* cycles and self-references included, and scans the payload of each base
\* txid at most once per top-level request: the turns its loops have taken
\* and the dependencies they still hold never exceed the references of the
\* graph, and a pending turn can always be taken.
C14_TerminatesScanningOnce ==
  /\ \A t \in Txids : req.scans[t] <= 1
  /\ req.turns + Len(depsIn(req.todo)) <= referenceCount(Txids)
  /\ req.pc = "deps" => ENABLED DependencyStep

\* a request that returned after resolving two payloads that reference
\* themselves and each other
C14_Witness ==
  /\ req.pc = "idle"
  /\ ~req.threw
  /\ \A t \in Txids : req.scans[t] = 1 /\ Range(chain[t].refs) = Txids
  /\ req.turns = referenceCount(Txids)

\* C15: when the decoding of one dependency fails, the resolver still
\* attempts every remaining dependency of that payload and returns normally:
\* no request ends by throwing out of a dependency's decode, leaving
\* dependencies unattempted.
C15_FailedDependencyTolerated ==
  req.dep => (~req.threw /\ req.dropped = <<>>)

(***************************************************************************)
(* The chain walker on a chain that is partly mined                        *)
(***************************************************************************)
WalkLengths == {1, 241, 1441, 1500}

WalkMaxHops == {1, 2, 20000}

WalkInit ==
  /\ MintInit({CtlOff})
  /\ RestIdle
  /\ DecoderIdle
  /\ chain = [t \in Txids |-> NoData]
  /\ tripTxs = <<>>
  /\ walk = WalkOff
  /\ tripOut = NoOutput
  /\ tripIn \in {[contentType |-> TextPlain, data |-> payloadOf(f, n)] :
                   f \in ByteFills, n \in WalkLengths}

WalkNext ==
  \/ \E start \in 1..MaxWalkTxs, maxHops \in WalkMaxHops, mined \in 0..MaxWalkTxs :
       WalkStart(start, maxHops, mined)
  \/ WalkHop
  \/ TripReconstruct

SpecWalk == WalkInit /\ [][WalkNext]_vars

\* no input of the transaction begins with the sentinel
noSentinel(vin) == \A x \in 1..Len(vin) : vin[x][1] # Sentinel

\* C16: if no input of the first-hop transaction begins with the sentinel
\* 6582895, the decode fails: nothing is returned for a content file or a
\* master entry to be written from, and no later transaction is taken as the
\* genesis hop.
C16_FirstHopMustBeGenesis ==
  (walk.pc # "off" /\ noSentinel(tripTxs[walk.start]))
    => (walk.genesisAt = 0 /\ walk.pc \notin {"walked", "done"})

\* C17: when the walker stops without the end-of-data signal (no next hop
\* found, a mempool transaction without blockhash, the chain tip, or maxHops
\* reached), decodeDoginalsChain returns the hex collected so far if at least
\* one chunk was collected, and fails with an error if none was.
C17_StopWithoutEndOfData ==
  (/\ walk.pc \in {"walked", "done", "failed"}
   /\ walk.stop \in {"nohop", "mempool", "tip", "maxHops"})
    => IF walk.chunks > 0
       THEN /\ walk.pc \in {"walked", "done"}
            /\ walk.returned = walk.dataHex
            /\ walk.returned # <<>>
       ELSE walk.pc = "failed"

\* a walk of a chain of three transactions that began at the reported one,
\* found it in the mempool and returned the chunks of that transaction alone
C17_Witness ==
  /\ walk.pc = "walked"
  /\ walk.stop = "mempool"
  /\ ~walk.endOfData
  /\ Len(tripTxs) = 3
  /\ walk.chunks > 0
  /\ walk.returned = walk.dataHex

(***************************************************************************)
(* The content store when files are removed from outside                   *)
(***************************************************************************)
\* an image, bytes of a weak type with an odd hex length, and html that
\* names an inscription as <model-viewer src>
StaleKinds ==
  {k \in ChainKinds :
     \/ k.mime = "image/png" /\ k.hexLen = 16
     \/ k.mime = OCTET /\ k.hexLen = 17 /\ k.magic = None
     \/ k.mime = "text/html;charset=utf-8" /\ Len(k.refs) = 1 /\ k.mv}

StaleInit ==
  /\ MintInit({CtlOff})
  /\ RestIdle
  /\ TripIdle
  /\ DecoderIdle
  /\ chain \in [Txids -> StaleKinds]

StaleNext ==
  \/ RequestStep
  \/ DependencyStep
  \/ \E f \in DOMAIN files : RemoveFile(f)

SpecStale == StaleInit /\ [][StaleNext]_vars

\* C18: when a master entry exists for the id but its recorded file is
\* missing, ensureInscriptionDecoded does not answer from cache: it walks the
\* chain again, returns fromCache = false, and the file and the master entry
\* of the id are rewritten, so that the entry names a file that exists and
\* has the recorded size.
C18_StaleEntryRewritten ==
  (last.stale /\ last.ok) =>
    /\ ~last.fromCache
    /\ last.rpc
    /\ master[normalizedId(last.id)].filename \in DOMAIN files
    /\ master[normalizedId(last.id)].size
         = files[master[normalizedId(last.id)].filename].size

(***************************************************************************)
(* The master index under any sequence of upserts                          *)
(***************************************************************************)
\* what an update can carry besides the inscription id
MetaFields ==
  [ext : {"bin", "png"}]
  \cup [ext : {"bin", "png"}, size : {8, 11}]
  \cup [size : {8, 11}]
  \cup [ext : {"png"}, createdAt : 0..MaxClock]
  \cup [createdAt : 0..MaxClock]

MasterIds == {Id(t, 0) : t \in Txids}

\* time passes
Tick ==
  /\ now < MaxClock
  /\ now' = now + 1
  /\ UNCHANGED <<master, files, modelViewerSrcSet, chain, req, last, first,
                 progressMap, lost, upserts, mintVars, tripVars, restVars>>

\* upsertMasterEntry(meta)
Upsert(meta) ==
  /\ upserts[meta.inscriptionId] < MaxUpserts
  /\ master' = upsertMasterEntry(master, meta)
  /\ upserts' = [upserts EXCEPT ![meta.inscriptionId] = @ + 1]
  /\ UNCHANGED <<files, modelViewerSrcSet, chain, req, last, first,
                 progressMap, lost, now, mintVars, tripVars, restVars>>

MasterInit ==
  /\ MintInit({CtlOff})
  /\ RestIdle
  /\ TripIdle
  /\ DecoderIdle
  /\ chain = [t \in Txids |-> NoData]

MasterNext ==
  \/ Tick
  \/ \E id \in MasterIds, fields \in MetaFields :
       Upsert(merged([inscriptionId |-> id], fields))

SpecMaster == MasterInit /\ [][MasterNext]_vars

\* C19: the createdAt of a master entry is set by the first
\* upsertMasterEntry for its id and is the same after every later upsert,
\* whatever fields the update carries.
C19_CreatedAtKept ==
  [][\A id \in DOMAIN master :
       /\ id \in DOMAIN master'
       /\ master'[id].createdAt = master[id].createdAt]_vars

\* an entry created at time 0 that has been upserted again, with the clock
\* moved on since its creation
C19_Witness ==
  \E id \in DOMAIN master :
    /\ upserts[id] = MaxUpserts
    /\ master[id].createdAt = 0
    /\ now = MaxClock
    /\ DOMAIN master[id] = {"inscriptionId", "createdAt", "ext", "size"}
    /\ master[id].ext = "png"
    /\ master[id].size = 11

(***************************************************************************)
(* Weak declared types on first materialization                            *)
(***************************************************************************)
\* the latest call wrote the payload of a txid that had no file before
materialized == last.ok /\ ~last.fromCache /\ ~last.stale

decodedTxid == normalizedId(last.id).txid

declaredMime == normalizeMimeType(chain[decodedTxid].mime)

declaredExt == mimeExtension(declaredMime)

\* what sniffing finds in the bytes of the payload
sniffed ==
  sniffFileTypeFromBuffer(
    Buf(bufferFromHexSize(paddedHexLen(chain[decodedTxid].hexLen, last.mv)),
        chain[decodedTxid].magic, decodedTxid))

\* the entry of last.inscriptionId names an existing file with extension ext
\* and records mimeType and ext
storedAs(mimeType, ext) ==
  /\ last.inscriptionId \in DOMAIN master
  /\ master[last.inscriptionId].filename = FileName(last.inscriptionId, ext)
  /\ FileName(last.inscriptionId, ext) \in DOMAIN files
  /\ master[last.inscriptionId].ext = ext
  /\ master[last.inscriptionId].mimeType = mimeType

\* C20 as stated: on first materialization of a payload whose declared type
\* is weak, the stored file and the master entry carry the sniffed type when
\* sniffing recognizes the bytes, and keep the weak classification when it
\* does not.
C20_WeakTypeSniffed ==
  (materialized /\ isWeakExtOrMime(declaredExt, declaredMime)) =>
    IF sniffed.ext # None THEN storedAs(sniffed.mimeType, sniffed.ext)
    ELSE storedAs(declaredMime, declaredExt)

\* C20, amended: as above, except that bytes sniffing does not recognize are
\* stored as <id>.glb with model/gltf-binary in the entry when the id is a
\* known <model-viewer src>.
C20_WeakTypeSniffedOrGlb ==
  (materialized /\ isWeakExtOrMime(declaredExt, declaredMime)) =>
    IF sniffed.ext # None THEN storedAs(sniffed.mimeType, sniffed.ext)
    ELSE IF last.mv THEN storedAs("model/gltf-binary", "glb")
    ELSE storedAs(declaredMime, declaredExt)

\* bytes declared application/octet-stream that begin like a PNG were just
\* stored as <id>.png
C20_Witness ==
  /\ materialized
  /\ chain[decodedTxid].mime = OCTET
  /\ chain[decodedTxid].magic = "png"
  /\ storedAs("image/png", "png")
  /\ FileName(last.inscriptionId, "bin") \notin DOMAIN files

(***************************************************************************)
(* The known model-viewer sources across requests                          *)
(***************************************************************************)
\* the latest call was the first call of a top-level request and walked
\* the chain
topLevelDecode == ~req.dep /\ last.ok /\ last.rpc

\* C21: the outcome of decoding an inscription in one top-level request does
\* not depend on model-viewer src references recorded while serving another
\* request: the first decode of a request, which runs before the request has
\* scanned any text, never treats its id as a known model-viewer source.
C21_OwnRequestSourcesOnly == topLevelDecode => ~last.mv

(***************************************************************************)
(* The confirmation wait of the DRC-20 controllers                         *)
(***************************************************************************)
\* C22: a confirmation wait returns only when the transaction being watched
\* has at least one confirmation: no waitForTxChainClear has returned on a
\* transaction that had merely left the mempool.
C22_WaitEndsConfirmed == ctl.lastWait \in {None, "slept", "confirmed"}

(***************************************************************************)
(* The counters of the DRC-20 streaming controllers                        *)
(***************************************************************************)
\* total (single) / grandTotal (multi): the mints the stream was asked for
RECURSIVE grandTotal(_)
grandTotal(jobs) == IF jobs = <<>> THEN 0 ELSE Head(jobs) + grandTotal(Tail(jobs))

noDuplicate(q) == \A i, j \in DOMAIN q : i # j => q[i] # q[j]

C24_HaltsAfterCancel ==
  [][ctl.cancelled =>
       /\ ~(ctl.pc # "wave" /\ ctl'.pc = "wave")
       /\ ctl'.late <= 1]_vars

(***************************************************************************)
(* The wallet file under inscribe and broadcast                            *)
(***************************************************************************)
\* a wallet file as walletSync leaves it: distinct utxos of earlier funding
WalletInit ==
  /\ MintInit({CtlOff})
  /\ DecoderIdle
  /\ TripIdle
  /\ chain = [t \in Txids |-> NoData]
  /\ RunIdle
  /\ race = <<>>
  /\ GraphIdle
  /\ PureIdle
  /\ walletUtxos \in {[i \in 1..k |-> Utxo(NoTx, i - 1)] : k \in 1..MaxFunds}
  /\ walletTxs = <<>>
  /\ walletAt = 0
  /\ walletChains = 0

WalletNext ==
  \/ \E len \in 2..MaxChainLen, toSelf \in BOOLEAN : WalletInscribe(len, toSelf)
  \/ \E r \in {"ok", "spent", "other"} : WalletBroadcast(r)

SpecWallet == WalletInit /\ [][WalletNext]_vars

\* C25: starting from a wallet file without duplicates, after any sequence
\* of inscribe, updateWallet and broadcast operations the utxo list of the
\* wallet file holds no two entries with the same (txid, vout).
C25_NoDuplicateUtxo == noDuplicate(walletUtxos)

(***************************************************************************)
(* The run record of the file-mint stream                                  *)
(***************************************************************************)
RunInit ==
  /\ MintInit({CtlOff})
  /\ DecoderIdle
  /\ TripIdle
  /\ chain = [t \in Txids |-> NoData]
  /\ WalletIdle
  /\ RunIdle
  /\ race = <<>>
  /\ GraphIdle
  /\ PureIdle

RunNext ==
  \/ RunCreate
  \/ \E totalFiles \in 0..MaxFiles : RunList(totalFiles)
  \/ \E mode \in {"normal", "mempool-recovery"} : RunMinted(mode)
  \/ RunDone
  \/ RunEnd
  \/ RunCatch

SpecRun == RunInit /\ [][RunNext]_vars

\* what every record on disk satisfies
recordOk(file) ==
  file # NoFile =>
    /\ file.completed = Len(file.results)
    /\ file.status \in {"done", "error"} <=> file.finishedAt # Null

\* C26: in every run record persisted by /api/doginals/mint-stream,
\* completed equals the number of entries in results, and status is done or
\* error exactly when finishedAt is set; a record whose status has left
\* running is never replaced by one that is running.
C26_RunRecordConsistent ==
  [][/\ recordOk(runFile')
     /\ (runFile # NoFile /\ runFile.status # "running")
          => runFile'.status # "running"]_vars

\* the record of a run that minted every file, one of them after mempool
\* recovery, and then failed while reporting: done was replaced by error
C26_Witness ==
  /\ runAt = "end"
  /\ runFile # NoFile
  /\ runFile.status = "error"
  /\ runFile.finishedAt = 2
  /\ runFile.completed = MaxFiles
  /\ "mempool-recovery" \in Range(runFile.results)

(***************************************************************************)
(* Two decodes of one inscription in flight together                       *)
(***************************************************************************)
\* the forms of the id of the inscription at txid ta
RaceIds == {Id("ta", -1), Id("ta", 0)}

\* the other inscription is nothing, or html that may name the first as a
\* dependency or as <model-viewer src>
RaceOthers == {k \in StoreKinds : k.mime # "text/html;charset=utf-8" => ~k.data}

\* an empty store
RaceInit ==
  /\ MintInit({CtlOff})
  /\ TripIdle
  /\ DecoderIdle
  /\ WalletIdle
  /\ RunIdle
  /\ race = <<>>
  /\ GraphIdle
  /\ PureIdle
  /\ chain \in {c \in [Txids -> StoreKinds] : c["tb"] \in RaceOthers}

\* the calls for the inscription at ta, from wherever they are made, and a
\* request for the other inscription, taken up to its first dependency
RaceNext ==
  \/ \E rawId \in RaceIds : RaceStart(rawId)
  \/ \E i \in 1..2 : RaceWrite(i)
  \/ \E i \in 1..2 : RaceSave(i)
  \/ RequestInscription(Id("tb", -1))

SpecRace == RaceInit /\ [][RaceNext]_vars

\* what a single call leaves on the empty store
single(isModelViewerSrc) ==
  decodedOutcome(EmptyMap, EmptyMap,
                 IF isModelViewerSrc THEN {Id("ta", 0)} ELSE {}, Id("ta", 0))

\* the files of the inscription at ta
filesOf(fs) == [f \in {x \in DOMAIN fs : x.stem = Id("ta", 0)} |-> fs[f]]

\* the entry of the inscription at ta and the file it names are as in s
sameEntry(s) ==
  IF Id("ta", 0) \notin DOMAIN s.master THEN Id("ta", 0) \notin DOMAIN master
  ELSE /\ Id("ta", 0) \in DOMAIN master
       /\ \A f \in {"filename", "mimeType", "ext", "size"} :
            master[Id("ta", 0)][f] = s.master[Id("ta", 0)][f]
       /\ master[Id("ta", 0)].filename \in DOMAIN files
       /\ files[master[Id("ta", 0)].filename]
            = s.files[s.master[Id("ta", 0)].filename]

bothReturned == Len(race) = 2 /\ \A i \in 1..2 : race[i].pc = "done"

walkers == {i \in DOMAIN race : race[i].walked}

\* C27: two ensureInscriptionDecoded calls for the same id that run
\* concurrently, interleaved at their awaits, end with the content file
\* bytes and the master entry fields (filename, mimeType, ext, size) that
\* one of them alone produces; when both took the id for a model-viewer
\* source, or both did not, every file of the inscription is as a single
\* call leaves it.
C27_ConcurrentDecodesAgree ==
  (bothReturned /\ walkers # {}) =>
    /\ \E i \in walkers : sameEntry(single(race[i].mv))
    /\ \A i \in walkers :
         (\A j \in walkers : race[j].mv = race[i].mv)
           => filesOf(files) = single(race[i].mv).files

\* both calls walked the chain of a payload of weak type with an odd hex
\* length; between their starts a request for html naming the inscription as
\* <model-viewer src> was served, and the later call wrote and saved first
C27_Witness ==
  /\ bothReturned
  /\ race[1].walked /\ ~race[1].mv
  /\ race[2].walked /\ race[2].mv
  /\ chain["ta"].mime = OCTET
  /\ chain["ta"].hexLen = 17
  /\ chain["ta"].magic = None
  /\ master[Id("ta", 0)].filename = FileName(Id("ta", 0), "bin")
  /\ FileName(Id("ta", 0), "glb") \in DOMAIN files

(***************************************************************************)
(* The chain walker on any answers of the node                             *)
(***************************************************************************)
GraphInit ==
  /\ MintInit({CtlOff})
  /\ TripIdle
  /\ DecoderIdle
  /\ chain = [t \in Txids |-> NoData]
  /\ WalletIdle
  /\ RunIdle
  /\ race = <<>>
  /\ GraphIdle
  /\ PureIdle

\* what the node can answer about the inputs of each transaction
GraphAnswers ==
  {vin \in [GraphTxids -> UNION {GraphVins(t) : t \in GraphTxids}] :
     \A t \in GraphTxids : vin[t] \in GraphVins(t)}

GraphNext ==
  \/ /\ gw.pc = "off"
     /\ \E vin \in GraphAnswers, next \in [GraphTxids -> 0..MaxGraphTxs],
           maxHops \in 1..MaxGraphHops : GraphStart(vin, next, maxHops)
  \/ GraphHop
  \/ GraphReturn

SpecGraph == GraphInit /\ [][GraphNext]_vars

\* the transactions next-hop search leads through from t, each once
RECURSIVE simplePath(_, _)
simplePath(t, before) ==
  IF t = 0 \/ t \in before THEN <<>>
  ELSE <<t>> \o simplePath(graph.next[t], before \cup {t})

\* the hex chunks of the inputs of one transaction from input x on, in input
\* order; inputs before the one that opens the inscription carry none
RECURSIVE hexOfInputs(_, _, _, _)
hexOfInputs(vin, x, isGenesis, stopAtEnd) ==
  IF x > Len(vin) THEN [hex |-> <<>>, isGenesis |-> isGenesis, ended |-> FALSE]
  ELSE IF isGenesis /\ vin[x][1] # Sentinel
       THEN hexOfInputs(vin, x + 1, TRUE, stopAtEnd)
       ELSE LET p == IF isGenesis THEN processGenesisAsm(vin[x])
                     ELSE processSubsequentAsm(vin[x])
                r == IF stopAtEnd /\ p.endOfData
                     THEN [hex |-> <<>>, isGenesis |-> FALSE, ended |-> TRUE]
                     ELSE hexOfInputs(vin, x + 1, FALSE, stopAtEnd)
            IN [hex |-> p.dataHex \o r.hex, isGenesis |-> FALSE,
                ended |-> p.endOfData \/ r.ended]

\* the hex chunks of the transactions of order from the i-th on
RECURSIVE hexOfHops(_, _, _, _)
hexOfHops(order, i, isGenesis, stopAtEnd) ==
  IF i > Len(order) THEN <<>>
  ELSE LET h == hexOfInputs(graph.vin[order[i]], 1, isGenesis, stopAtEnd)
       IN h.hex \o (IF stopAtEnd /\ h.ended THEN <<>>
                    ELSE hexOfHops(order, i + 1, h.isGenesis, stopAtEnd))

\* C28: the hex decodeDoginalsChain returns is the concatenation of the hex
\* chunks of the transactions it processed, in hop order and in input order
\* within a transaction; the processed transactions are the first ones the
\* next-hop search leads through, each once, so that no transaction
\* contributes its chunks twice.
C28_HexInHopOrderOnce ==
  gw.pc \in {"walking", "left", "walked"} =>
    /\ Len(gw.order) <= Len(simplePath(1, {}))
    /\ gw.order = SubSeq(simplePath(1, {}), 1, Len(gw.order))
    /\ gw.dataHex = hexOfHops(gw.order, 1, TRUE, FALSE)
    /\ gw.pc = "walked" => gw.returned = gw.dataHex

\* a walk that returned the chunks of two transactions, one of them with two
\* inputs that carry chunks, after the search had led back to a transaction
\* already processed
C28_Witness ==
  /\ gw.pc = "walked"
  /\ Len(gw.order) = 2
  /\ gw.turns > 2
  /\ \E t \in GraphTxids : Len(graph.vin[t]) = 2 /\ graph.vin[t][2] # FundAsm
                            /\ graph.vin[t][1] # FundAsm
  /\ Len(gw.returned) >= 12

\* C29: once a pair with remaining value 0 has been parsed, no further hex
\* is appended to the payload, neither from later inputs of the same
\* transaction nor from a later hop: the hex collected is what the inputs
\* carry up to and including that pair.
C29_NothingAfterEnd ==
  (gw.pc \in {"walking", "left", "walked"} /\ gw.endOfData) =>
    gw.dataHex = hexOfHops(gw.order, 1, TRUE, TRUE)

\* transactions of one input each
LoopAnswers == {vin \in GraphAnswers : \A t \in GraphTxids : Len(vin[t]) = 1}

LoopNext ==
  \/ /\ gw.pc = "off"
     /\ \E vin \in LoopAnswers, next \in [GraphTxids -> 0..MaxGraphTxs],
           maxHops \in 1..MaxGraphHops : GraphStart(vin, next, maxHops)
  \/ GraphHop
  \/ GraphReturn

\* every await of the walk returns
FairSpecLoop ==
  GraphInit /\ [][LoopNext]_vars /\ WF_vars(GraphHop) /\ WF_vars(GraphReturn)

\* C30: decodeDoginalsChain leaves its loop after at most maxHops turns and
\* returns or throws, whatever the node answers, also when the next-hop
\* search leads back to a transaction already processed.
C30_EndsWithinMaxHops ==
  /\ [](gw.turns <= gw.maxHops)
  /\ [](gw.pc = "walking" => <>(gw.pc \in {"walked", "failed"}))

\* a walk that went round a cycle until maxHops turns were taken
C30_Witness ==
  /\ gw.pc \in {"walked", "failed"}
  /\ gw.stop = "maxHops"
  /\ gw.turns = gw.maxHops
  /\ gw.turns > Len(gw.order)
  /\ ~gw.endOfData

(***************************************************************************)
(* The two asm parsers on token lists of every shape                       *)
(***************************************************************************)
\* "0", "1", "-0", "10" and a hex push
ParseTokens == {<<0>>, <<1>>, <<16, 0>>, <<1, 0>>, <<10, 11>>}

RECURSIVE tokenLists(_)
tokenLists(n) ==
  IF n = 0 THEN {<<>>}
  ELSE tokenLists(n - 1)
       \cup {Append(l, t) : l \in {x \in tokenLists(n - 1) : Len(x) = n - 1},
                            t \in ParseTokens}

\* sentinel, count and mime type
Preamble == <<Sentinel, <<2>>, toHex(TextPlain)>>

ParseInit ==
  /\ MintInit({CtlOff})
  /\ TripIdle
  /\ DecoderIdle
  /\ chain = [t \in Txids |-> NoData]
  /\ WalletIdle
  /\ RunIdle
  /\ race = <<>>
  /\ GraphIdle
  /\ pack = NoPack
  /\ waves = WavesOff
  /\ \E l \in tokenLists(MaxTokens), pre \in {<<>>, Preamble} :
       parse = [NoParse EXCEPT !.asmData = pre \o l]

ParseNext == ParseGenesis \/ ParseSubsequent

SpecParse == ParseInit /\ [][ParseNext]_vars

\* the j-th pair from token start on: an integer token with a token after it
isPair(asmData, start, j) ==
  /\ start + 2 * j - 1 <= Len(asmData)
  /\ isIntegerString(asmData[start + 2 * j - 2])

isZeroPair(asmData, start, j) ==
  isPair(asmData, start, j) /\ parseIntAbs(asmData[start + 2 * j - 2]) = 0

\* how many pairs are consumed: all up to the first that is none, or up to
\* and including the first with 0
consumed(asmData, start) ==
  LET upTo == 0..(Len(asmData) \div 2 + 1)
      ok(n) == \A j \in 1..n : /\ isPair(asmData, start, j)
                               /\ j < n => ~isZeroPair(asmData, start, j)
  IN CHOOSE n \in upTo : ok(n) /\ \A k \in upTo : ok(k) => k <= n

RECURSIVE hexOfPairs(_, _, _)
hexOfPairs(asmData, start, n) ==
  IF n = 0 THEN <<>>
  ELSE hexOfPairs(asmData, start, n - 1) \o asmData[start + 2 * n - 1]

\* C31: processGenesisAsm (after its 3-token preamble) and
\* processSubsequentAsm consume (integer, hex) token pairs left to right and
\* stop at the first pair whose integer is 0, with endOfData true, or at the
\* first token in an integer's place that is none, or when the tokens run
\* out, with endOfData false; dataHex is the concatenation of the hex tokens
\* consumed and chunksFound their number.
C31_PairsUpToZero ==
  parse.by # "none" =>
    LET start == IF parse.by = "genesis" THEN 4 ELSE 1
        n == consumed(parse.asmData, start)
    IN /\ parse.out.chunksFound = n
       /\ parse.out.dataHex = hexOfPairs(parse.asmData, start, n)
       /\ parse.out.endOfData = (n >= 1 /\ isZeroPair(parse.asmData, start, n))

\* processGenesisAsm read a pair with 10, stopped at a pair with -0 and left
\* a token behind
C31_Witness ==
  /\ parse.by = "genesis"
  /\ Len(parse.asmData) = 8
  /\ parse.asmData[4] = <<1, 0>>
  /\ parse.asmData[6] = <<16, 0>>
  /\ parse.out.chunksFound = 2
  /\ parse.out.endOfData

(***************************************************************************)
(* The packing loop of inscribe on payloads and content types of all sizes *)
(***************************************************************************)
\* content type lengths at the edges of the three push forms
PackTypeLengths == {1, 75, 76, 255, 256, MAX_SCRIPT_ELEMENT_SIZE}

\* payload lengths around one part, around the parts that fill a partial,
\* and with more than 16 and more than 127 parts
PackDataLengths ==
  {1, 239, 240, 241, 480, 960, 1200, 1439, 1440, 1441, 1679, 1680, 1681, 2880,
   4081, 30721}

PackInit ==
  /\ MintInit({CtlOff})
  /\ TripIdle
  /\ DecoderIdle
  /\ chain = [t \in Txids |-> NoData]
  /\ WalletIdle
  /\ RunIdle
  /\ race = <<>>
  /\ GraphIdle
  /\ PureIdle

PackNext ==
  \/ /\ pack.pc = "off"
     /\ \E c \in PackTypeLengths, n \in PackDataLengths :
          PackStart(payloadOf(96, c), payloadOf(0, n))
  \/ PackTurn
  \/ PackEnd

SpecPack == PackInit /\ [][PackNext]_vars

\* C32: every partial envelope inscribe produces serializes to at most
\* MAX_PAYLOAD_LEN (1500) bytes and holds at least one element, for every
\* non-empty payload and every content type of at most
\* MAX_SCRIPT_ELEMENT_SIZE (520) bytes, so that the packing loop always makes
\* progress.
C32_PartialsFitAndProgress ==
  \A i \in DOMAIN pack.partials :
    /\ scriptBytes(pack.partials[i]) <= MAX_PAYLOAD_LEN
    /\ Len(pack.partials[i]) >= 1

\* a content type of 520 bytes and a payload packed into three or more
\* partials, one of them after a pair was put back
C32_Witness ==
  /\ pack.pc = "done"
  /\ Len(pack.contentType) = MAX_SCRIPT_ELEMENT_SIZE
  /\ Len(pack.partials) >= 3
  /\ \E i \in DOMAIN pack.partials :
       /\ i < Len(pack.partials)
       /\ scriptBytes(pack.partials[i]) + chunkBytes(pack.partials[i + 1][1])
            + chunkBytes(pack.partials[i + 1][2]) > MAX_PAYLOAD_LEN

(***************************************************************************)
(* The wave loop with requested counts beyond one wave                     *)
(***************************************************************************)
WaveInit ==
  /\ MintInit({CtlOff})
  /\ TripIdle
  /\ DecoderIdle
  /\ chain = [t \in Txids |-> NoData]
  /\ WalletIdle
  /\ RunIdle
  /\ race = <<>>
  /\ GraphIdle
  /\ PureIdle

WaveNext ==
  \/ /\ waves.pc = "off"
     /\ \E mode \in {"single", "multi"}, total \in 1..MaxWaveTotal :
          WaveStart(mode, total)
  \/ WaveCancel
  \/ \E ok \in BOOLEAN : WaveSync(ok)
  \/ WaveLoop
  \/ WaveTest
  \/ /\ waves.pc = "wave"
     /\ \E minted \in 0..MAX_PER_WAVE, r \in {"ok", "chainlimit", "hard"} :
          WaveClosed(minted, r)

SpecWaves == WaveInit /\ [][WaveNext]_vars

C34_WaitAndSyncBetweenWaves ==
  [][(ctl.pc # "wave" /\ ctl'.pc = "wave") => ctl.after \in {None, "synced"}]_vars

(***************************************************************************)
(* The retries of the wallet sync                                          *)
(***************************************************************************)
\* C35: syncWalletWithRetry performs at most 5 wallet-sync attempts and
\* returns on the first success; when all attempts have failed the job ends
\* with a mintError and no further wave is spawned.
C35_SyncRetriesThenAbort ==
  [][/\ ctl'.pc = "syncwait" => ctl'.attempt \in 1..5
     /\ (ctl.pc = "syncwait" /\ ctl'.pc # "syncwait" /\ proc.code = 0)
          => (ctl'.pc = ctl.next /\ ctl'.attempt = ctl.attempt)
     /\ (ctl.pc = "sync" /\ ctl.attempt > 5 /\ ctl'.pc # "sync") => ctl'.pc = "error"
     /\ ctl.pc = "error" => ctl'.pc = "error"]_vars

\* a stream that ended after five failed attempts of one sync, with mints
\* remaining
C35_Witness ==
  /\ ctl.pc = "error"
  /\ ctl.attempt = 6
  /\ ~ctl.cancelled
  /\ ctl.jobDone < ctl.jobs[ctl.job]

(***************************************************************************)
(* Hard errors of a wave                                                   *)
(***************************************************************************)
\* C36 as stated: a wave or test wave that exits non-zero without a
\* chain-limit indication ends the job with a mintError event, and no wave is
\* spawned after it.
C36_HardErrorIsMintError ==
  [][(ctl.pc = "wave" /\ ctl'.pc # "wave" /\ proc.code # 0 /\ ~proc.chainLimit)
       => ctl'.pc = "error"]_vars

\* C36: a wave or test wave that exits non-zero without a chain-limit
\* indication ends the job, with a mintError event or, in /api/drc20/mint-stream
\* when the client has closed the stream, as cancelled without one; no wave is
\* spawned after it.
C36_HardErrorEndsJob ==
  [][/\ (ctl.pc = "wave" /\ ctl'.pc # "wave" /\ proc.code # 0 /\ ~proc.chainLimit)
          => \/ ctl'.pc = "error"
             \/ ctl.mode = "single" /\ ctl.cancelled /\ ctl'.pc = "done"
     /\ ctl.pc \in {"error", "done"} => ctl'.pc = ctl.pc]_vars

\* a job ended by the hard error of a test wave, with mints remaining
C36_Witness ==
  /\ ctl.pc = "error"
  /\ ctl.kind = "test"
  /\ ctl.attempt <= SYNC_MAX_TRIES
  /\ ~ctl.cancelled
  /\ ctl.jobDone < ctl.jobs[ctl.job]

(***************************************************************************)
(* The dependency plan when the resolver returns                           *)
(***************************************************************************)
\* C37: when handleHtmlSvgDependencies returns for a top-level payload whose
\* dependencies all decoded, the progress entry of the request has depTotal
\* equal to the number of distinct dependencies of the top-level payload and
\* depDone equal to depTotal, also when dependencies have dependencies.
C37_PlanOfTopLevelDone ==
  (req.pc = "idle" /\ ~req.threw /\ req.top > 0)
    => /\ req.key \in DOMAIN progressMap
       /\ progressMap[req.key].depTotal = req.top
       /\ progressMap[req.key].depDone = progressMap[req.key].depTotal

(***************************************************************************)
(* The files of one inscription under content/                             *)
(***************************************************************************)
\* C38: after any sequence of decode requests, content/ holds at most one
\* file named <inscriptionId>.<ext> for each inscription id, including ids
\* saved through the model-viewer .glb path and ids renamed after sniffing.
C38_OneFilePerInscription ==
  \A f, g \in DOMAIN files : f.stem = g.stem => f = g

(***************************************************************************)
(* decodeDoginalsChain and its progress entry on every way out             *)
(***************************************************************************)
\* lastNumChunks of the two parsers: the count of the last pair read
RECURSIVE lastNumChunks(_, _, _)
lastNumChunks(asmData, index, soFar) ==
  IF index > Len(asmData) THEN soFar
  ELSE IF ~isIntegerString(asmData[index]) THEN soFar
  ELSE IF index + 1 > Len(asmData) THEN soFar
  ELSE IF parseIntAbs(asmData[index]) = 0 THEN 0
  ELSE lastNumChunks(asmData, index + 2, parseIntAbs(asmData[index]))

\* the updateProgress calls of the loop over rawTx.vin from input x on; a
\* genesis input that is too short throws before any call
RECURSIVE reportInputs(_, _, _, _)
reportInputs(vin, x, w, pm) ==
  IF x > Len(vin) THEN pm
  ELSE LET asmData == vin[x]
           w1 == overInputs(<<asmData>>, 1, w)
           g == processGenesisAsm(asmData)
           s == processSubsequentAsm(asmData)
       IN IF w1.pc = "failed" THEN pm
          ELSE IF w.isGenesis
          THEN IF asmData[1] = Sentinel
               THEN reportInputs(vin, x + 1, w1,
                      updateProgress(pm, w.key, "genesis", g.chunksFound,
                        lastNumChunks(asmData, 4, parseIntAbs(asmData[2]))))
               ELSE reportInputs(vin, x + 1, w1, pm)
          ELSE reportInputs(vin, x + 1, w1,
                 IF s.chunksFound > 0
                 THEN updateProgress(pm, w.key, "chain", s.chunksFound,
                                     lastNumChunks(asmData, 1, Null))
                 ELSE pm)

\* the progress entries after one turn of the while loop
reportHop(w, g, pm) ==
  LET w0 == countHop(w)
  IN IF seen(w0, w0.txid) THEN pm
     ELSE reportInputs(g.vin[w0.txid], 1, w0, pm)

ExitOthers ==
  <<walletVars, runVars, race, mintVars, tripVars, pureVars, master, files,
    modelViewerSrcSet, chain, req, last, first, lost, now, upserts>>

\* decodeDoginalsChain(genesisTxid, depthBlocks, {progressKey, maxHops}) up to
\* its loop; the chunk count of the entry is kept within the bound
ExitStart(key, vin, next, maxHops) ==
  /\ gw.pc = "off"
  /\ graph = NoGraph
  /\ entryOrBase(progressMap, key).chunksFound <= MaxProgress
  /\ graph' = [vin |-> vin, next |-> next]
  /\ gw' = [GraphOff EXCEPT !.pc = "walking", !.txid = 1, !.maxHops = maxHops,
                            !.key = key]
  /\ progressMap' = startProgress(progressMap, key)
  /\ UNCHANGED ExitOthers

\* one turn of the while loop; rpc('getrawtransaction') answers or throws
ExitHop(answers) ==
  /\ gw.pc = "walking"
  /\ gw.key # None
  /\ ~gw.endOfData
  /\ gw.hop < gw.maxHops
  /\ IF answers \/ seen(countHop(gw), gw.txid)
     THEN /\ gw' = hopOf(gw, graph)
          /\ progressMap' = reportHop(gw, graph, progressMap)
     ELSE /\ gw' = [countHop(gw) EXCEPT !.pc = "failed", !.stop = "rpc"]
          /\ UNCHANGED progressMap
  /\ UNCHANGED <<graph, ExitOthers>>

\* after the while loop: completeProgress, then the throw or the return
ExitReturn ==
  /\ gw.key # None
  /\ \/ gw.pc = "left"
     \/ gw.pc = "walking" /\ (gw.endOfData \/ gw.hop >= gw.maxHops)
  /\ gw' = afterLoop(IF gw.pc = "left" THEN gw ELSE [gw EXCEPT !.stop = "maxHops"])
  /\ progressMap' = completeProgress(progressMap, gw.key)
  /\ UNCHANGED <<graph, ExitOthers>>

\* the caller has taken the result or the exception; the entry stays
ExitOver ==
  /\ gw.key # None
  /\ gw.pc \in {"walked", "failed"}
  /\ gw' = GraphOff
  /\ graph' = NoGraph
  /\ UNCHANGED <<progressMap, ExitOthers>>

ExitTxids == 1..MaxExitTxs

\* inputs of transaction t: a genesis input with or without the end, a
\* continuation with or without the end, no inscription data, and a genesis
\* input of two tokens
ExitVins(t) ==
  { <<genesisAsm(t, 1, 1)>>,
    <<genesisAsm(t, 1, 0)>>,
    <<chainAsm(t, 1, 1)>>,
    <<chainAsm(t, 1, 0)>>,
    <<FundAsm>>,
    <<<<Sentinel, digits(1)>>>> }

ExitAnswers ==
  {vin \in [ExitTxids -> UNION {ExitVins(t) : t \in ExitTxids}] :
     \A t \in ExitTxids : vin[t] \in ExitVins(t)}

\* the first n transactions in a row, or every search leading back to the first
ExitHops ==
  {[t \in ExitTxids |-> IF t < n THEN t + 1 ELSE 0] : n \in ExitTxids}
  \cup {[t \in ExitTxids |-> 1]}

ExitNext ==
  \/ /\ gw.pc = "off"
     /\ \E key \in ProgressKeys, vin \in ExitAnswers, next \in ExitHops,
           maxHops \in {1, MaxGraphHops} : ExitStart(key, vin, next, maxHops)
  \/ \E answers \in BOOLEAN : ExitHop(answers)
  \/ ExitReturn
  \/ ExitOver

SpecExit == GraphInit /\ [][ExitNext]_vars

\* C39: every decode that creates or updates a progress entry leaves that
\* entry with active = false on every exit path of decodeDoginalsChain
\* (success, no data found, RPC failure, genesis parse error), so that a
\* progress stream polling the key ends.
C39_InactiveOnEveryExit ==
  (gw.key # None /\ gw.pc \in {"walked", "failed"})
    => /\ gw.key \in DOMAIN progressMap
       /\ ~progressMap[gw.key].active

(***************************************************************************)
(* Inscriptions broadcast in full by one bulk job                          *)
(***************************************************************************)
\* C40: for a /api/drc20/mint-stream job with requested total T, the number
\* of inscriptions whose full transaction chain is broadcast to the node
\* never exceeds T, counting also the inscriptions completed by the
\* rebroadcast of the pending journal that a recovery 'wallet sync' triggers.
C40_BroadcastWithinTotal ==
  ctl.mode = "single" => hist.whole <= ctl.jobs[1]

====
